---- MODULE Spec2Model ----
(***************************************************************************)
(* Verification model of MiningMachinesPricesCollector.                    *)
(*                                                                         *)
(*  - the message forwarding engine (telegram/handlers/message_handler.py):*)
(*    forward_message, process_media_group_with_delay, fallback_copy;      *)
(*  - the forwarding configuration service and the bot start-up            *)
(*    (telegram/services/forward_config.py, telegram/app.py);              *)
(*  - the extraction router (pdf_processing/pdf_parser.py).                *)
(*                                                                         *)
(* Coroutines are modelled at the granularity of their awaits: one action  *)
(* runs a coroutine from the await it is suspended at to the next one.     *)
(***************************************************************************)
EXTENDS Integers, Sequences, FiniteSets, TLC

VARIABLES
    FORWARDING_CONFIG,    \* app.FORWARDING_CONFIG: source chat id -> list of destination ids
    SOURCE_CHAT_IDS,      \* app.SOURCE_CHAT_IDS: list of source chat ids
    chat_info,            \* chat_info of main(), handed to create_forwarding_handler
    registered,           \* the forwarding MessageHandler has been added to the client
    config_file,          \* the JSON document of CONFIG_FILE, or NoFile
    mode,                 \* settings.tg_bot_run.mode after the --mode= argument
    main_pc,              \* where main() of app.py is
    started,              \* app.start() has run and app.stop() has not
    collector_registered, \* register_pdf_collector_handlers has run
    startups,             \* how many times the bot process has been started
    validation,           \* the last return of validate_chats in this process
    saved,                \* the last return of load_saved_config in this process
    access,               \* how the transport answers for each chat
    ext_dir,              \* the PDFs of the collection directory not yet processed
    ext_pc,               \* where main() of pdf_parser.py is
    ext_out,              \* the stems of the .xlsx files written to OUTPUT_DIR
    ext_last,             \* what the last route_extract call did
    media_groups_buffer,  \* message_handler.media_groups_buffer: mg id -> {messages, task}
    inbox,                \* messages the dispatcher has not yet handed to the handler
    units,                \* running deliveries: forward_message calls and flush tasks
    faults,               \* transport errors the environment may still raise
    cv_profile,           \* which OCR extractor runs: extract_promminer or extract_uminers
    contours,             \* the bounding rectangles cv2.findContours gave, as [y, h]
    bands,                \* the row bands computed from the clusters
    rows_px,              \* the rows the extractor then cuts the image into
    rebands,              \* the bands computed again from the bands
    cell_txt,             \* the text of a cell handed to _fix_hashrate_unit
    cell_out,             \* what _fix_hashrate_unit returned
    df,                   \* the rows of the frame handed to _drop_garbage_rows
    df_kept,              \* the rows _drop_garbage_rows returned
    cv_pc,                \* where the OCR function under study is
    ocr_grid,             \* what pytesseract answers for each cell of the grid, row by row
    data,                 \* data of the extractor: the rows recognized so far
    ocr_at,               \* the index of the row the OCR loop is at
    ocr_df,               \* the rows of the frame built from data
    col_path,             \* which collection path runs: the collect command handler or the cron job
    chat_ids,             \* chat_ids handed to collect_pdf_files
    scanned,              \* the messages get_chat_history gave for the chat in hand
    downloaded,           \* the messages download_media saved for the chat in hand
    collection_log,       \* collection_log of collect_pdf_files
    all_files,            \* all_files of collect_pdf_files
    col_i,                \* how many chats of chat_ids are done
    stages,               \* the stages started after the collection, with how each ended
    col_pc,               \* where the collection path is
    wrapper,              \* where safe_data_collection_wrapper is, then what it returned
    command,              \* the collect command in hand: who sent it, how the admins folder answers
    status,               \* what the status message of the collect command shows
    scr_cards,            \* the product cards of the catalogue pages and what fails on each
    all_product_cards,    \* all_product_cards of process_all_urls
    scr_sessions,         \* the browser sessions created: by which thread, used by which, quit or not
    scr_futures,          \* the futures of process_product that have started: state, driver, result
    scr_done,             \* the cards whose future has completed and been read
    all_products,         \* all_products of process_all_urls
    scr_saved,            \* what save_to_excel has written
    scr_pc                \* where UminersScraper.run is

fwdVars == <<media_groups_buffer, inbox, units, faults>>
cfgVars == <<FORWARDING_CONFIG, SOURCE_CHAT_IDS, chat_info, registered, config_file, access>>
mainVars == <<mode, main_pc, started, collector_registered, startups, validation, saved>>
extVars == <<ext_dir, ext_pc, ext_out, ext_last>>
cvVars == <<cv_profile, contours, bands, rows_px, rebands, cell_txt, cell_out, df, df_kept, cv_pc>>
colVars == <<col_path, chat_ids, scanned, downloaded, collection_log, all_files, col_i, stages, col_pc,
            wrapper, command, status>>
scrVars == <<scr_cards, all_product_cards, scr_sessions, scr_futures, scr_done, all_products,
            scr_saved, scr_pc>>
ocrVars == <<ocr_grid, data, ocr_at, ocr_df>>
pipeVars == <<cvVars, colVars, scrVars, ocrVars>>
vars == <<fwdVars, cfgVars, mainVars, extVars, pipeVars>>

\* no OCR loop is running
OcrIdle == ocr_grid = <<>> /\ data = <<>> /\ ocr_at = 0 /\ ocr_df = <<>>

\* no scrape is running
ScrIdle ==
    /\ scr_cards = <<>> /\ all_product_cards = <<>> /\ scr_done = {} /\ all_products = <<>>
    /\ scr_sessions = <<>> /\ scr_futures = <<>>
    /\ scr_saved = <<>> /\ scr_pc = "idle"

\* no collection is running
ColIdle ==
    /\ col_path = "" /\ chat_ids = <<>> /\ scanned = <<>> /\ downloaded = <<>>
    /\ collection_log = <<>> /\ all_files = <<>> /\ col_i = 0 /\ stages = <<>>
    /\ col_pc = "idle"
    /\ wrapper = "idle" /\ command = <<>> /\ status = ""

\* nothing of the OCR extractors or of the collection pipeline is running
PipeIdle ==
    /\ cv_profile = "" /\ contours = <<>> /\ bands = <<>> /\ rows_px = <<>> /\ rebands = <<>>
    /\ cell_txt = <<>> /\ cell_out = <<>> /\ df = <<>> /\ df_kept = <<>>
    /\ cv_pc = "idle"
    /\ ColIdle
    /\ ScrIdle
    /\ OcrIdle

(***************************************************************************)
(* Bounds of the model.                                                    *)
(***************************************************************************)
\* transport errors injected in a run that delivers one message or album
MaxFaults == 4
\* transport errors injected in a run with concurrent arrivals and flushes
MaxRaceFaults == 0
\* starts of the bot process over one configuration file
MaxStartups == 2

(***************************************************************************)
(* Generic helpers.                                                        *)
(***************************************************************************)
Range(s) == {s[i] : i \in DOMAIN s}

None == 0

RECURSIVE InsertById(_, _)
\* insertion of m into a list sorted by id, after the elements with the same id
InsertById(m, s) ==
    IF s = <<>> THEN <<m>>
    ELSE IF m.id < Head(s).id THEN <<m>> \o s
    ELSE <<Head(s)>> \o InsertById(m, Tail(s))

\* the sort left out
SortByIdNone(s) == s

RECURSIVE SortById(_)
\* messages.sort(key=lambda m: m.id): a stable sort by message id
SortById(s) ==
    IF s = <<>> THEN <<>>
    ELSE InsertById(s[Len(s)], SortById(SubSeq(s, 1, Len(s) - 1)))

MessageIds(msgs) == [i \in DOMAIN msgs |-> msgs[i].id]

(***************************************************************************)
(* ForwardConfigService: the persisted configuration.                      *)
(* A JSON object key is a string, modelled as the sequence of its          *)
(* characters; str(int) and int(str) are computed digit by digit.          *)
(***************************************************************************)
DigitChars == <<"0", "1", "2", "3", "4", "5", "6", "7", "8", "9">>

RECURSIVE NatToStr(_)
NatToStr(n) ==
    IF n < 10 THEN <<DigitChars[n + 1]>>
    ELSE NatToStr(n \div 10) \o <<DigitChars[(n % 10) + 1]>>

\* the decimal digits without the sign
IntToStrUnsigned(k) == NatToStr(IF k < 0 THEN -k ELSE k)

\* str(k) of save_config: the decimal digits, after a minus sign when negative
IntToStr(k) == IF k < 0 THEN <<"-">> \o NatToStr(-k) ELSE NatToStr(k)

IsDigit(c) == \E d \in 1..10 : DigitChars[d] = c
DigitValue(c) == (CHOOSE d \in 1..10 : DigitChars[d] = c) - 1

RECURSIVE DigitsToNat(_)
DigitsToNat(s) ==
    IF s = <<>> THEN 0
    ELSE 10 * DigitsToNat(SubSeq(s, 1, Len(s) - 1)) + DigitValue(s[Len(s)])

\* int(k) of load_saved_config: ok is FALSE where int() raises ValueError
StrToInt(s) ==
    LET neg == s # <<>> /\ s[1] = "-"
        body == IF neg THEN Tail(s) ELSE s
    IN IF body = <<>> \/ \E i \in DOMAIN body : ~IsDigit(body[i])
       THEN [ok |-> FALSE, value |-> 0]
       ELSE [ok |-> TRUE, value |-> IF neg THEN -DigitsToNat(body) ELSE DigitsToNat(body)]

\* ChatType members and their .name; chat_info itself holds the names
ChatTypeName ==
    ("ChatType.PRIVATE" :> "PRIVATE") @@ ("ChatType.GROUP" :> "GROUP")
    @@ ("ChatType.CHANNEL" :> "CHANNEL")

\* save_config: the copy of one chat_info entry, a ChatType replaced by its name
SerializableInfo(info) ==
    [f \in DOMAIN info |->
        IF f = "type" /\ info[f] \in DOMAIN ChatTypeName
        THEN ChatTypeName[info[f]] ELSE info[f]]

\* {str(k): v for k, v in d.items()}
StrKeyed(d) ==
    [s \in {IntToStr(k) : k \in DOMAIN d} |->
        d[CHOOSE k \in DOMAIN d : IntToStr(k) = s]]

NoFile == [exists |-> FALSE]

\* save_config: the document written to the configuration file
SaveConfig(source_chat_ids, forwarding_config, info) ==
    [exists |-> TRUE,
     source_chat_ids |-> source_chat_ids,
     forwarding_config |-> StrKeyed(forwarding_config),
     chat_info |-> StrKeyed([c \in DOMAIN info |-> SerializableInfo(info[c])])]

\* the keys of a JSON object turned back into integers
IntKeyed(d) ==
    [k \in {StrToInt(s).value : s \in DOMAIN d} |->
        d[CHOOSE s \in DOMAIN d : StrToInt(s).value = k]]

NoConfig ==
    [has_config |-> FALSE, source_chat_ids |-> <<>>,
     forwarding_config |-> <<>>, chat_info |-> <<>>]

\* load_saved_config: (has_config, source_chat_ids, forwarding_config, chat_info)
LoadSavedConfig(file) ==
    IF ~file.exists THEN NoConfig
    ELSE IF \E s \in DOMAIN file.forwarding_config \cup DOMAIN file.chat_info :
               ~StrToInt(s).ok
    THEN NoConfig
    ELSE [has_config |-> TRUE,
          source_chat_ids |-> file.source_chat_ids,
          forwarding_config |-> IntKeyed(file.forwarding_config),
          chat_info |-> IntKeyed(file.chat_info)]

(***************************************************************************)
(* The chats the account knows, as the transport describes them.           *)
(***************************************************************************)
Chats == {-7, 2, 13}

\* chat.type.name, chat.username (absent when empty), and the readable name
ChatType(c) == CASE c = -7 -> "CHANNEL" [] c = 2 -> "GROUP" [] OTHER -> "PRIVATE"
HasUsername(c) == c = -7
ChatUsername(c) == "src"
ChatName(c) == CASE c = -7 -> "Source" [] c = 2 -> "Two" [] OTHER -> "Three"

\* validate_chats, the entry built from a dialog
DialogEntry(c) ==
    IF HasUsername(c)
    THEN ("type" :> ChatType(c)) @@ ("username" :> ChatUsername(c)) @@ ("name" :> ChatName(c))
    ELSE ("type" :> ChatType(c)) @@ ("name" :> ChatName(c))

\* validate_chats, the entry built from app.get_chat
DirectEntry(c) ==
    IF HasUsername(c)
    THEN ("username" :> ChatUsername(c)) @@ ("type" :> ChatType(c))
    ELSE ("type" :> ChatType(c))

(***************************************************************************)
(* Python list and dict helpers.                                           *)
(***************************************************************************)
RECURSIVE RemoveFirst(_, _)
\* list.remove(x): the first occurrence of x is removed
RemoveFirst(s, x) ==
    IF s = <<>> THEN <<>>
    ELSE IF Head(s) = x THEN Tail(s)
    ELSE <<Head(s)>> \o RemoveFirst(Tail(s), x)

\* del d[k]
DictDel(d, k) == [x \in DOMAIN d \ {k} |-> d[x]]

\* d[k] = v
DictSet(d, k, v) == [x \in DOMAIN d \cup {k} |-> IF x = k THEN v ELSE d[x]]

(***************************************************************************)
(* ForwardConfigService.validate_chats                                     *)
(***************************************************************************)
\* all_chat_ids: the sources and every destination
AllChatIds(source_chat_ids, forwarding_config) ==
    Range(source_chat_ids) \cup
    UNION {Range(forwarding_config[k]) : k \in DOMAIN forwarding_config}

\* problematic_chats: not among the dialogs, and app.get_chat raised
ProblematicChats(all_chat_ids, dialogs, reachable) ==
    {c \in all_chat_ids : c \notin dialogs /\ c \notin reachable}

RECURSIVE DropSources(_, _, _)
\* for source_id in list(source_chat_ids): a problematic source is removed
\* from source_chat_ids and from forwarding_config; todo is the copied list
DropSources(todo, st, problematic) ==
    IF todo = <<>> THEN st
    ELSE LET source_id == Head(todo) IN
         DropSources(Tail(todo),
            IF source_id \in problematic
            THEN [source_chat_ids |-> RemoveFirst(st.source_chat_ids, source_id),
                  forwarding_config |->
                     IF source_id \in DOMAIN st.forwarding_config
                     THEN DictDel(st.forwarding_config, source_id)
                     ELSE st.forwarding_config]
            ELSE st,
            problematic)

\* the destinations left as they are
DropDestsNone(todo, dest_ids, problematic) == dest_ids

RECURSIVE DropDests(_, _, _)
\* for dest_id in list(dest_ids): a problematic destination is removed
DropDests(todo, dest_ids, problematic) ==
    IF todo = <<>> THEN dest_ids
    ELSE DropDests(Tail(todo),
                   IF Head(todo) \in problematic
                   THEN RemoveFirst(dest_ids, Head(todo)) ELSE dest_ids,
                   problematic)

\* a source left without destination is deleted, and removed from
\* source_chat_ids when it is there
DropEmptySource(st, source_id) ==
    IF st.forwarding_config[source_id] = <<>>
    THEN [source_chat_ids |->
             IF source_id \in Range(st.source_chat_ids)
             THEN RemoveFirst(st.source_chat_ids, source_id)
             ELSE st.source_chat_ids,
          forwarding_config |-> DictDel(st.forwarding_config, source_id)]
    ELSE st

RECURSIVE CleanDests(_, _, _)
\* for source_id in list(forwarding_config.keys())
CleanDests(keys, st, problematic) ==
    IF keys = {} THEN st
    ELSE LET source_id == CHOOSE k \in keys : TRUE
             dest_ids == st.forwarding_config[source_id]
             cleaned == [st EXCEPT !.forwarding_config[source_id] =
                            DropDests(dest_ids, dest_ids, problematic)]
         IN CleanDests(keys \ {source_id}, DropEmptySource(cleaned, source_id),
                       problematic)

\* validate_chats(app, source_chat_ids, forwarding_config), given the chats
\* app.get_dialogs yields and those app.get_chat answers for; the result is
\* what it returns, the chats that failed the check, and the file it saves
ValidateChats(source_chat_ids, forwarding_config, dialogs, reachable) ==
    LET all_chat_ids == AllChatIds(source_chat_ids, forwarding_config)
        problematic == ProblematicChats(all_chat_ids, dialogs, reachable)
        info == [c \in dialogs \cup (all_chat_ids \ problematic) |->
                    IF c \in dialogs THEN DialogEntry(c) ELSE DirectEntry(c)]
        st1 == DropSources(source_chat_ids,
                  [source_chat_ids |-> source_chat_ids,
                   forwarding_config |-> forwarding_config], problematic)
        st2 == CleanDests(DOMAIN st1.forwarding_config, st1, problematic)
    IN [source_chat_ids |-> st2.source_chat_ids,
        forwarding_config |-> st2.forwarding_config,
        chat_info |-> info,
        problematic |-> problematic,
        file |-> SaveConfig(st2.source_chat_ids, st2.forwarding_config, info)]

(***************************************************************************)
(* ForwardConfigService.interactive_setup and configure_forwarding         *)
(***************************************************************************)
\* dest_chat_ids: the chosen dialogs other than the source itself
ChosenDests(dialog_dict, dest_indexes, chat_id) ==
    SelectSeq([i \in DOMAIN dest_indexes |->
                  IF dest_indexes[i] \in DOMAIN dialog_dict
                  THEN dialog_dict[dest_indexes[i]] ELSE chat_id],
              LAMBDA d : d # chat_id)

RECURSIVE SetupSources(_, _, _, _)
\* for idx in source_indexes; dest_inputs[i] is the answer to the i-th prompt
\* for destinations
SetupSources(source_indexes, dest_inputs, dialog_dict, st) ==
    IF source_indexes = <<>> THEN st
    ELSE LET idx == Head(source_indexes) IN
         IF idx \notin DOMAIN dialog_dict
         THEN SetupSources(Tail(source_indexes), dest_inputs, dialog_dict, st)
         ELSE LET chat_id == dialog_dict[idx]
                  dest_chat_ids == ChosenDests(dialog_dict, Head(dest_inputs), chat_id)
              IN SetupSources(Tail(source_indexes), Tail(dest_inputs), dialog_dict,
                    [source_chat_ids |-> Append(st.source_chat_ids, chat_id),
                     forwarding_config |->
                        IF dest_chat_ids # <<>>
                        THEN DictSet(st.forwarding_config, chat_id, dest_chat_ids)
                        ELSE st.forwarding_config,
                     keys |->
                        IF dest_chat_ids # <<>> /\ chat_id \notin Range(st.keys)
                        THEN Append(st.keys, chat_id) ELSE st.keys])

\* interactive_setup(dialog_dict): (source_chat_ids, forwarding_config), and
\* keys, the order in which forwarding_config got its keys;
\* dialog_dict maps the number shown to the chat id
InteractiveSetup(dialog_dict, source_indexes, dest_inputs) ==
    SetupSources(source_indexes, dest_inputs, dialog_dict,
                 [source_chat_ids |-> <<>>, forwarding_config |-> <<>>, keys |-> <<>>])

\* configure_forwarding: (folder_exists, forwarding_config, chat_info) and
\* the file it saves (NoFile when it saves none). folder is the list of the
\* chat ids of the folder's peers, absent when the folder is not found.
ConfigureForwarding(folder_found, folder, dialogs, source_indexes, dest_inputs, file) ==
    LET failed == [folder_exists |-> FALSE, forwarding_config |-> <<>>, keys |-> <<>>,
                   chat_info |-> <<>>, file |-> file]
    IN IF ~folder_found THEN failed
       \* chat_info[chat_id]['type'] of a chat outside the dialogs raises
       \* KeyError, caught by the outer except
       ELSE IF \E i \in DOMAIN folder : folder[i] \notin dialogs THEN failed
       ELSE IF folder = <<>> THEN failed
       ELSE LET setup == InteractiveSetup(folder, source_indexes, dest_inputs)
                info == [c \in Range(folder) |-> DialogEntry(c)]
            IN [folder_exists |-> TRUE,
                forwarding_config |-> setup.forwarding_config,
                keys |-> setup.keys,
                chat_info |-> info,
                file |-> SaveConfig(setup.source_chat_ids, setup.forwarding_config, info)]

(***************************************************************************)
(* Chats and messages of the model.                                        *)
(***************************************************************************)
\* the largest FloodWait value (seconds) the transport signals
MaxFloodWait == 2

\* random.randint(1, 3): the jitter before a later destination
JitterMin == 1
JitterMax == 3

Exceptions == {"FloodWait", "MessageIdInvalid", "Error"}

\* what a transport call can return now: success, or an error while the
\* environment still has errors to raise
Outcomes == {"ok"} \cup (IF faults > 0 THEN Exceptions ELSE {})

Spend(r) == IF r \in Exceptions THEN faults - 1 ELSE faults

\* a Message: id, chat.id, media_group_id (None when absent), whether
\* from_user.id == client.me.id, and what it carries (media, text, other)
Msg(id, chat, mg, own, kind) ==
    [id |-> id, chat |-> chat, mg |-> mg, from_me |-> own, kind |-> kind]

(***************************************************************************)
(* forward_message: the prefix of the fallback copy.                       *)
(***************************************************************************)
Prefix(info, source_chat_id) ==
    IF source_chat_id \in DOMAIN info /\ "username" \in DOMAIN info[source_chat_id]
    THEN <<"from", "@", info[source_chat_id]["username"]>>
    ELSE IF source_chat_id \in DOMAIN info /\ "type" \in DOMAIN info[source_chat_id]
    THEN <<"from", info[source_chat_id]["type"], source_chat_id>>
    ELSE <<"from", "chat", source_chat_id>>

(***************************************************************************)
(* The log of a delivery: the calls it made, in order. A transport call is *)
(* appended when it is issued (res = "pending") and completed on return.   *)
(***************************************************************************)
Event(op, dest, ids, res) == [op |-> op, dest |-> dest, ids |-> ids, res |-> res]

Issue(u, op, ids, pc) ==
    [u EXCEPT !.log = Append(@, Event(op, u.dest, ids, "pending")), !.pc = pc]

Return(u, r) ==
    [u EXCEPT !.log = [@ EXCEPT ![Len(@)].res = r]]

\* the primary or repeated forward of the unit to its current destination:
\* client.forward_messages(message_ids=...) for an album, message.forward for
\* a single message
IssueForward(u, pc) ==
    Issue(u, IF u.kind = "group" THEN "forward_messages" ELSE "forward",
          u.message_ids, pc)

\* the head of the for loop over set(FORWARDING_CONFIG[source_chat_id]):
\* the next destination in the set's (unspecified) iteration order, preceded
\* by asyncio.sleep(random.randint(1, 3)) once first_forwarded is set
LoopStep(u) ==
    IF u.todo = {} THEN {[u EXCEPT !.pc = "done", !.dest = None]}
    ELSE UNION {
        LET v == [u EXCEPT !.dest = d, !.todo = @ \ {d}] IN
        IF u.first_forwarded
        THEN {[v EXCEPT !.pc = "sleep_jitter", !.sleep = s,
                         !.log = Append(@, Event("sleep_jitter", d, <<>>, "slept"))]
               : s \in JitterMin..JitterMax}
        ELSE {IssueForward(v, "fwd")}
        : d \in u.todo}

(***************************************************************************)
(* fallback_copy(client, message, dest_chat_id, prefix)                    *)
(***************************************************************************)
\* the copy of one message: copy_message with the prefixed caption for a
\* media message, send_message of the prefixed text for a text message,
\* a plain copy_message otherwise
IssueCopy(u) ==
    LET m == u.msgs[1] IN
    Issue(u, CASE m.kind = "media" -> "copy_message_caption"
               [] m.kind = "text" -> "send_message"
               [] OTHER -> "copy_message",
          <<m.id>>, "fb_copy")

\* entry of fallback_copy for the anchor message (messages[0], or the single
\* message): copy_media_group first when the message belongs to an album
EnterFallback(u) ==
    LET m == u.msgs[1]
        v == [u EXCEPT !.log = Append(@, Event("fallback_copy", u.dest, <<m.id>>, "called"))]
    IN IF m.mg # None
       THEN Issue(v, "copy_media_group", <<m.id>>, "fb_group")
       ELSE IssueCopy(v)

\* the inner except of fallback_copy: copy_media_group failed, copy singly
CopyGroupFailed(u) == {IssueCopy(u)}

\* the outer except of fallback_copy: a last send_message of the text
CopyFailed(u) == {Issue(u, "send_message_final", <<u.msgs[1].id>>, "fb_final")}

\* the last send_message without its try
FinalSendFailedRaises(u) == {[u EXCEPT !.pc = "raised"]}

\* the last send_message raised: the exception is swallowed
FinalSendFailed(u) == LoopStep(u)

(***************************************************************************)
(* The except clauses around the forward of one destination.               *)
(***************************************************************************)
\* except FloodWait as fw: await asyncio.sleep(fw.value), then the retry
OnFloodWait(u) ==
    {[u EXCEPT !.pc = "sleep_flood", !.signal = w, !.sleep = w,
               !.log = Append(@, Event("sleep_flood", u.dest, <<>>, "slept"))]
       : w \in 1..MaxFloodWait}

\* MessageIdInvalid handled like any other error
OnMessageIdInvalidFallsBack(u) == {EnterFallback(u)}

\* except MessageIdInvalid: the destination is skipped
OnMessageIdInvalid(u) == LoopStep(u)

\* except Exception: fallback_copy
OnOtherError(u) == {EnterFallback(u)}

\* the forward returned: first_forwarded is set on success
OnPrimary(u, r) ==
    CASE r = "ok" -> LoopStep([u EXCEPT !.first_forwarded = TRUE])
      [] r = "FloodWait" -> OnFloodWait(u)
      [] r = "MessageIdInvalid" -> OnMessageIdInvalid(u)
      [] OTHER -> OnOtherError(u)

\* a retry that waits and retries again on a further FloodWait
OnRetryAgain(u, r) ==
    CASE r = "ok" -> LoopStep([u EXCEPT !.first_forwarded = TRUE])
      [] r = "FloodWait" -> OnFloodWait(u)
      [] OTHER -> {EnterFallback(u)}

\* the forward repeated after FloodWait returned: any exception goes to
\* fallback_copy
OnRetry(u, r) ==
    IF r = "ok" THEN LoopStep([u EXCEPT !.first_forwarded = TRUE])
    ELSE {EnterFallback(u)}

\* no route_extract call has been made
NoExtract ==
    [file |-> <<>>, raised |-> FALSE, profile |-> "", stream |-> <<>>, lattice |-> <<>>,
     table |-> [header |-> <<>>, columns |-> 0, rows |-> 0]]

\* the event loop runs the handlers and tasks while main() awaits idle()
Running == main_pc = "idle"

(***************************************************************************)
(* Deliveries. A unit is one forward_message call of a single message or   *)
(* one process_media_group_with_delay task; it is named by the id of the   *)
(* message whose handler started it.                                       *)
(***************************************************************************)
NewUnit(kind, mg, src, prefix, pc) ==
    [kind |-> kind, mg |-> mg, src |-> src, prefix |-> prefix, pc |-> pc,
     popped |-> FALSE, buffered |-> <<>>, msgs |-> <<>>, message_ids |-> <<>>,
     todo |-> {}, dest |-> None, first_forwarded |-> FALSE,
     signal |-> 0, sleep |-> 0, log |-> <<>>]

Awake(u) == [u EXCEPT !.signal = 0, !.sleep = 0]

\* a flush task scheduled for every arriving message
BufferAppendAlwaysSchedules(buf, m) ==
    LET entry == IF m.mg \in DOMAIN buf THEN buf[m.mg]
                 ELSE [messages |-> <<>>, task |-> None]
    IN [g \in DOMAIN buf \cup {m.mg} |->
          IF g = m.mg THEN [messages |-> Append(entry.messages, m), task |-> m.id]
          ELSE buf[g]]

\* the entry's list replaced by the arriving message
BufferAppendReplaces(buf, m) ==
    LET entry == IF m.mg \in DOMAIN buf THEN buf[m.mg]
                 ELSE [messages |-> <<>>, task |-> None]
        task == IF entry.task = None THEN m.id ELSE entry.task
    IN [g \in DOMAIN buf \cup {m.mg} |->
          IF g = m.mg THEN [messages |-> <<m>>, task |-> task]
          ELSE buf[g]]

\* forward_message, mg branch: the group's entry is created when absent, the
\* message appended, and a flush task created when the entry has none
BufferAppend(buf, m) ==
    LET entry == IF m.mg \in DOMAIN buf THEN buf[m.mg]
                 ELSE [messages |-> <<>>, task |-> None]
        task == IF entry.task = None THEN m.id ELSE entry.task
    IN [g \in DOMAIN buf \cup {m.mg} |->
          IF g = m.mg THEN [messages |-> Append(entry.messages, m), task |-> task]
          ELSE buf[g]]

\* the check of the author left out
IsOwnMessageNever(m) == FALSE

\* whether forward_message ignores the message: from_user is the bot itself
IsOwnMessage(m) == m.from_me

\* forward_message(client, message, chat_info) up to its first await
ForwardMessage(m) ==
    IF IsOwnMessage(m) \/ m.chat \notin DOMAIN FORWARDING_CONFIG
    THEN UNCHANGED <<media_groups_buffer, units>>
    ELSE LET prefix == Prefix(chat_info, m.chat) IN
         IF m.mg # None
         THEN /\ media_groups_buffer' = BufferAppend(media_groups_buffer, m)
              /\ units' = IF media_groups_buffer'[m.mg].task = m.id
                          THEN units @@ (m.id :> NewUnit("group", m.mg, m.chat, prefix, "sleep_delay"))
                          ELSE units
         ELSE LET u == [NewUnit("single", None, m.chat, prefix, "loop") EXCEPT
                           !.buffered = <<m>>, !.msgs = <<m>>, !.message_ids = <<m.id>>,
                           !.todo = Range(FORWARDING_CONFIG[m.chat])]
              IN /\ \E v \in LoopStep(u) : units' = units @@ (m.id :> v)
                 /\ UNCHANGED media_groups_buffer

\* the dispatcher hands an incoming message to the handler; filters.chat
\* passes only the messages of the chats of SOURCE_CHAT_IDS
Receive(m) ==
    /\ Running
    /\ registered
    /\ m \in inbox
    /\ inbox' = inbox \ {m}
    /\ IF m.chat \in Range(SOURCE_CHAT_IDS)
       THEN ForwardMessage(m)
       ELSE UNCHANGED <<media_groups_buffer, units>>
    /\ UNCHANGED <<faults, cfgVars, mainVars, extVars, pipeVars>>

\* process_media_group_with_delay after the sleep: the entry is popped, its
\* messages sorted by id, the destinations read from FORWARDING_CONFIG
Flush(u, buf) ==
    IF u.mg \notin DOMAIN buf THEN {[u EXCEPT !.pc = "done"]}
    ELSE LET messages == SortById(buf[u.mg].messages)
             v == [u EXCEPT !.popped = TRUE, !.buffered = buf[u.mg].messages,
                            !.msgs = messages,
                            !.message_ids = MessageIds(messages)]
         IN IF messages = <<>> \/ u.src \notin DOMAIN FORWARDING_CONFIG
            THEN {[v EXCEPT !.pc = "done"]}
            ELSE LoopStep([v EXCEPT !.todo = Range(FORWARDING_CONFIG[u.src])])

DelayElapsed(i) ==
    /\ Running
    /\ units[i].pc = "sleep_delay"
    /\ \E v \in Flush(units[i], media_groups_buffer) : units' = [units EXCEPT ![i] = v]
    /\ media_groups_buffer' =
         [g \in DOMAIN media_groups_buffer \ {units[i].mg} |-> media_groups_buffer[g]]
    /\ UNCHANGED <<inbox, faults, cfgVars, mainVars, extVars, pipeVars>>

\* the unit that resumes: unit i, awake, with the result r of its call logged
Awaited(i, r) == Return(Awake(units[i]), r)

\* unit i resumes from its await with result r and becomes v
Resume(i, r, v) ==
    /\ Running
    /\ units' = [units EXCEPT ![i] = v]
    /\ faults' = Spend(r)
    /\ UNCHANGED <<media_groups_buffer, inbox, cfgVars, mainVars, extVars, pipeVars>>

ForwardReturns(i) ==
    /\ units[i].pc = "fwd"
    /\ \E r \in Outcomes : \E v \in OnPrimary(Awaited(i, r), r) : Resume(i, r, v)

FloodSleepDone(i) ==
    /\ units[i].pc = "sleep_flood"
    /\ Resume(i, "slept", IssueForward(Awaited(i, "slept"), "retry"))

RetryReturns(i) ==
    /\ units[i].pc = "retry"
    /\ \E r \in Outcomes : \E v \in OnRetry(Awaited(i, r), r) : Resume(i, r, v)

JitterDone(i) ==
    /\ units[i].pc = "sleep_jitter"
    /\ Resume(i, "slept", IssueForward(Awaited(i, "slept"), "fwd"))

CopyGroupReturns(i) ==
    /\ units[i].pc = "fb_group"
    /\ \E r \in Outcomes :
          \E v \in (IF r = "ok" THEN LoopStep(Awaited(i, r)) ELSE CopyGroupFailed(Awaited(i, r))) :
              Resume(i, r, v)

CopyReturns(i) ==
    /\ units[i].pc = "fb_copy"
    /\ \E r \in Outcomes :
          \E v \in (IF r = "ok" THEN LoopStep(Awaited(i, r)) ELSE CopyFailed(Awaited(i, r))) :
              Resume(i, r, v)

FinalSendReturns(i) ==
    /\ units[i].pc = "fb_final"
    /\ \E r \in Outcomes :
          \E v \in (IF r = "ok" THEN LoopStep(Awaited(i, r)) ELSE FinalSendFailed(Awaited(i, r))) :
              Resume(i, r, v)

ForwardNext ==
    \/ \E m \in inbox : Receive(m)
    \/ \E i \in DOMAIN units : DelayElapsed(i)
    \/ \E i \in DOMAIN units : ForwardReturns(i)
    \/ \E i \in DOMAIN units : FloodSleepDone(i)
    \/ \E i \in DOMAIN units : RetryReturns(i)
    \/ \E i \in DOMAIN units : JitterDone(i)
    \/ \E i \in DOMAIN units : CopyGroupReturns(i)
    \/ \E i \in DOMAIN units : CopyReturns(i)
    \/ \E i \in DOMAIN units : FinalSendReturns(i)

(***************************************************************************)
(* The forwarding engine with the handler registered for a validated       *)
(* configuration.                                                          *)
(***************************************************************************)
\* chat -7 is the source, 2 and 13 are its destinations
ValidatedConfig == (-7 :> <<2, 13>>)
ValidatedInfo == [c \in Chats |-> DialogEntry(c)]

\* an album of messages 3, 4, 5 and a message of the same album id written
\* by the bot itself
AlbumInbox ==
    {Msg(id, -7, 1, FALSE, "media") : id \in 3..5} \cup {Msg(9, -7, 1, TRUE, "media")}

\* one message without album id, of each content
SingleInboxes ==
    {{Msg(6, -7, None, FALSE, k)} : k \in {"media", "text", "other"}}

ForwardInit ==
    /\ FORWARDING_CONFIG = ValidatedConfig
    /\ SOURCE_CHAT_IDS = <<-7>>
    /\ chat_info = ValidatedInfo
    /\ registered = TRUE
    /\ config_file = SaveConfig(SOURCE_CHAT_IDS, FORWARDING_CONFIG, chat_info)
    /\ access = [c \in Chats |-> "dialog"]
    /\ mode = "full"
    /\ main_pc = "idle"
    /\ started = TRUE
    /\ collector_registered = TRUE
    /\ startups = 1
    /\ validation = [ran |-> TRUE, problematic |-> {}]
    /\ saved = NoConfig
    /\ media_groups_buffer = <<>>
    /\ units = <<>>
    /\ PipeIdle
    /\ ext_dir = {}
    /\ ext_pc = "done"
    /\ ext_out = {}
    /\ ext_last = NoExtract
    /\ \/ inbox = AlbumInbox /\ faults = MaxRaceFaults
       \/ inbox \in SingleInboxes /\ faults = MaxFaults
       \/ inbox = {Msg(id, -7, 1, FALSE, "media") : id \in 3..4} /\ faults = MaxFaults

SpecForward == ForwardInit /\ [][ForwardNext]_vars

(***************************************************************************)
(* main() of telegram/app.py, one action per stretch between its awaits    *)
(* of the transport or of the user.                                        *)
(***************************************************************************)
\* the chats app.get_dialogs yields, and those app.get_chat answers for
Dialogs == {c \in Chats : access[c] = "dialog"}
Reachable == {c \in Chats : access[c] # "none"}

\* the forwarding is never skipped
SkipForwardingNever == FALSE

SKIP_FORWARDING == mode = "collect-only"
SKIP_COLLECT == mode = "forward-only"

\* the chats of the forwarding folder, in the order of its peers
Folder == <<-7, 2, 13>>

\* what the user may answer to interactive_setup: the numbers of the source
\* chats, and for each accepted source the numbers of its destinations
SourceInputs == {<<>>, <<1>>, <<4, 1>>, <<1, 2>>, <<1, 1>>}
DestInputs == {<<>>, <<1>>, <<2, 3>>, <<3, 3, 4>>}

\* BotMode
Modes == {"full", "forward-only", "collect-only"}

\* app.start() and the reading of --mode=: the argument, when there is
\* one, replaces settings.tg_bot_run.mode
MainStart ==
    /\ main_pc = "start"
    /\ started' = TRUE
    /\ \E arg_mode \in Modes \cup {""} : mode' = IF arg_mode # "" THEN arg_mode ELSE mode
    /\ main_pc' = "collector"
    /\ UNCHANGED <<pipeVars, extVars, fwdVars, cfgVars, collector_registered, startups, validation, saved>>

\* the registration of the collector: both folders must exist, else main
\* returns; then the collect-only mode idles without forwarding
MainCollector ==
    /\ main_pc = "collector"
    /\ \E is_admins_folder_exists, is_collect_folder_exists \in BOOLEAN :
         IF ~SKIP_COLLECT /\ ~(is_admins_folder_exists /\ is_collect_folder_exists)
         THEN main_pc' = "returned" /\ UNCHANGED collector_registered
         ELSE /\ collector_registered' = ~SKIP_COLLECT
              /\ main_pc' = IF SKIP_FORWARDING THEN "idle" ELSE "load"
    /\ UNCHANGED <<pipeVars, extVars, fwdVars, cfgVars, mode, started, startups, validation, saved>>

\* load_saved_config(), and the globals set from a saved configuration
MainLoad ==
    /\ main_pc = "load"
    /\ saved' = LoadSavedConfig(config_file)
    /\ IF saved'.has_config
       THEN /\ SOURCE_CHAT_IDS' = saved'.source_chat_ids
            /\ FORWARDING_CONFIG' = saved'.forwarding_config
            /\ chat_info' = saved'.chat_info
            /\ main_pc' = "validate"
       ELSE /\ UNCHANGED <<SOURCE_CHAT_IDS, FORWARDING_CONFIG, chat_info>>
            /\ main_pc' = "configure"
    /\ UNCHANGED <<pipeVars, extVars, fwdVars, registered, config_file, access, mode, started,
                   collector_registered, startups, validation>>

\* configure_forwarding(), the return when nothing was configured, and the
\* globals and the saved file of a new configuration
MainConfigure ==
    /\ main_pc = "configure"
    /\ \E folder_found \in BOOLEAN, source_indexes \in SourceInputs, d1, d2 \in DestInputs :
         LET got == ConfigureForwarding(folder_found, Folder, Dialogs,
                                        source_indexes, <<d1, d2>>, config_file)
         IN IF ~got.folder_exists \/ got.forwarding_config = <<>> \/ got.chat_info = <<>>
            THEN /\ main_pc' = "returned"
                 /\ config_file' = got.file
                 /\ UNCHANGED <<SOURCE_CHAT_IDS, FORWARDING_CONFIG, chat_info>>
            ELSE LET keys == got.keys IN  \* list(folder_config.keys())
                 /\ SOURCE_CHAT_IDS' = keys
                 /\ FORWARDING_CONFIG' = got.forwarding_config
                 /\ chat_info' = got.chat_info
                 /\ config_file' = SaveConfig(keys, got.forwarding_config, got.chat_info)
                 /\ main_pc' = "validate"
    /\ UNCHANGED <<pipeVars, extVars, fwdVars, registered, access, mode, started, collector_registered,
                   startups, validation, saved>>

\* validate_chats(app, SOURCE_CHAT_IDS, FORWARDING_CONFIG) and the globals
\* set from what it returns
MainValidate ==
    /\ main_pc = "validate"
    /\ LET got == ValidateChats(SOURCE_CHAT_IDS, FORWARDING_CONFIG, Dialogs, Reachable) IN
         /\ SOURCE_CHAT_IDS' = got.source_chat_ids
         /\ FORWARDING_CONFIG' = got.forwarding_config
         /\ chat_info' = got.chat_info
         /\ config_file' = got.file
         /\ validation' = [ran |-> TRUE, problematic |-> got.problematic]
    /\ main_pc' = "register"
    /\ UNCHANGED <<pipeVars, extVars, fwdVars, registered, access, mode, started, collector_registered,
                   startups, saved>>

\* the handler registered before validate_chats has run
MainRegisterBeforeValidate ==
    /\ main_pc = "validate"
    /\ ~registered
    /\ SOURCE_CHAT_IDS # <<>> /\ FORWARDING_CONFIG # <<>>
    /\ registered' = TRUE
    /\ UNCHANGED <<pipeVars, extVars, fwdVars, FORWARDING_CONFIG, SOURCE_CHAT_IDS, chat_info, config_file,
                   access, mode, main_pc, started, collector_registered, startups, validation,
                   saved>>

\* app.add_handler(MessageHandler(create_forwarding_handler(chat_info), ...))
\* unless nothing is configured; then main awaits idle()
MainRegister ==
    /\ main_pc = "register"
    /\ registered' = (SOURCE_CHAT_IDS # <<>> /\ FORWARDING_CONFIG # <<>>)
    /\ main_pc' = "idle"
    /\ UNCHANGED <<pipeVars, extVars, fwdVars, FORWARDING_CONFIG, SOURCE_CHAT_IDS, chat_info, config_file,
                   access, mode, started, collector_registered, startups, validation, saved>>

\* idle() ends and app.stop() runs
MainStop ==
    /\ main_pc = "idle"
    /\ started' = FALSE
    /\ main_pc' = "returned"
    /\ UNCHANGED <<pipeVars, extVars, fwdVars, cfgVars, mode, collector_registered, startups, validation, saved>>

\* the process is started again: the module globals are fresh, the
\* configuration file is what the last process left
Restart ==
    /\ main_pc = "returned"
    /\ startups < MaxStartups
    /\ startups' = startups + 1
    /\ main_pc' = "start"
    /\ started' = FALSE
    /\ collector_registered' = FALSE
    /\ registered' = FALSE
    /\ SOURCE_CHAT_IDS' = <<>>
    /\ FORWARDING_CONFIG' = <<>>
    /\ chat_info' = <<>>
    /\ validation' = [ran |-> FALSE, problematic |-> {}]
    /\ saved' = NoConfig
    /\ media_groups_buffer' = <<>>
    /\ units' = <<>>
    /\ UNCHANGED <<inbox, faults, config_file, access, mode, extVars, pipeVars>>

\* between two starts the account's access to its chats may change
AccessChanges ==
    /\ main_pc = "returned"
    /\ \E a \in [Chats -> {"dialog", "direct", "none"}] : access' = a
    /\ UNCHANGED <<pipeVars, extVars, fwdVars, FORWARDING_CONFIG, SOURCE_CHAT_IDS, chat_info, registered,
                   config_file, mainVars>>

MainNext ==
    \/ MainStart
    \/ MainCollector
    \/ MainLoad
    \/ MainConfigure
    \/ MainValidate
    \/ MainRegister
    \/ MainStop
    \/ Restart

\* the message that arrives while the bot runs: one of an album, or one
\* without album id
BotInboxes == {{Msg(3, -7, 1, FALSE, "media")}, {Msg(6, -7, None, FALSE, "text")}}

\* transport errors injected in a run of the whole bot
MaxBotFaults == 4

Init ==
    /\ FORWARDING_CONFIG = <<>>
    /\ SOURCE_CHAT_IDS = <<>>
    /\ chat_info = <<>>
    /\ registered = FALSE
    /\ config_file = NoFile
    /\ mode \in {"full", "forward-only", "collect-only"}
    /\ main_pc = "start"
    /\ started = FALSE
    /\ collector_registered = FALSE
    /\ startups = 1
    /\ validation = [ran |-> FALSE, problematic |-> {}]
    /\ saved = NoConfig
    /\ media_groups_buffer = <<>>
    /\ units = <<>>
    /\ PipeIdle
    /\ inbox \in BotInboxes
    /\ faults = MaxBotFaults
    /\ ext_dir = {}
    /\ ext_pc = "done"
    /\ ext_out = {}
    /\ ext_last = NoExtract
    /\ access \in {[c \in Chats |-> "dialog"],
                   [c \in Chats |-> IF c = 13 THEN "none" ELSE "dialog"]}

Next == MainNext \/ ForwardNext

Spec == Init /\ [][Next]_vars

\* the start-up alone, over every access the account can have
StartupInit ==
    /\ FORWARDING_CONFIG = <<>>
    /\ SOURCE_CHAT_IDS = <<>>
    /\ chat_info = <<>>
    /\ registered = FALSE
    /\ config_file = NoFile
    /\ mode \in {"full", "forward-only", "collect-only"}
    /\ main_pc = "start"
    /\ started = FALSE
    /\ collector_registered = FALSE
    /\ startups = 1
    /\ validation = [ran |-> FALSE, problematic |-> {}]
    /\ saved = NoConfig
    /\ media_groups_buffer = <<>>
    /\ units = <<>>
    /\ PipeIdle
    /\ inbox = {}
    /\ faults = 0
    /\ ext_dir = {}
    /\ ext_pc = "done"
    /\ ext_out = {}
    /\ ext_last = NoExtract
    /\ access \in [Chats -> {"dialog", "direct", "none"}]

StartupNext == MainNext \/ AccessChanges

SpecStartup == StartupInit /\ [][StartupNext]_vars

(***************************************************************************)
(* pdf_processing/pdf_parser.py: the extraction router.                    *)
(* A file name is the sequence of its characters. What Tabula reads from a *)
(* document is given with the document: whether read_pdf raises, and the   *)
(* tables of the profile pass, of the stream pass and of the lattice pass, *)
(* each with its non-empty columns and the kinds of its rows.              *)
(***************************************************************************)
IBMM_HEADER ==
    <<"Model", "Hashrate", "Power", "Price RUB Moscow", "Price USD Moscow",
      "Price RUB China", "Price USD China">>
PROM_HEADER == <<"Model", "Hashrate", "Power", "Delivery", "Price from">>

LowerTable ==
    ("I" :> "i") @@ ("B" :> "b") @@ ("M" :> "m") @@ ("P" :> "p") @@ ("R" :> "r")

\* the name taken as it is
LowerNone(name) == name

\* str.lower()
Lower(name) ==
    [i \in DOMAIN name |->
        IF name[i] \in DOMAIN LowerTable THEN LowerTable[name[i]] ELSE name[i]]

\* str.startswith with a tuple of prefixes
StartsWith(name, prefixes) ==
    \E q \in prefixes : Len(name) >= Len(q) /\ SubSeq(name, 1, Len(q)) = q

IbmmTokens == {<<"i", "b", "m", "m">>, <<"i", "b", "m", "m", "_">>, <<"i", "b", "m">>}
PromminerTokens ==
    {<<"p", "r", "o", "m", "m", "i", "n", "e", "r">>,
     <<"p", "r", "o", "m", "m", "i", "n", "e", "r", "_">>}

\* pd.concat of tables: the union of the columns, the rows one after another
RECURSIVE ConcatRows(_)
ConcatRows(tables) ==
    IF tables = <<>> THEN <<>> ELSE Head(tables).rows \o ConcatRows(Tail(tables))
ConcatColumns(tables) == UNION {tables[i].columns : i \in DOMAIN tables}

Table(header, columns, rows) == [header |-> header, columns |-> columns, rows |-> rows]
EmptyTable == Table(<<>>, 0, 0)      \* pd.DataFrame()
Returned(profile, table) == [raised |-> FALSE, profile |-> profile, table |-> table]
Raised(profile) == [raised |-> TRUE, profile |-> profile, table |-> EmptyTable]

\* the width check of extract_ibmm
IbmmWidthOk(ncols) == ncols = Len(IBMM_HEADER)

\* extract_ibmm: read_pdf, concat, the row filters, the width check
ExtractIbmm(doc) ==
    IF doc.read_raises \/ doc.tables = <<>> THEN Raised("IBMM")
    ELSE LET ncols == Cardinality(ConcatColumns(doc.tables))
             kept == SelectSeq(ConcatRows(doc.tables), LAMBDA r : r = "data")
         IN IF ncols < 2 THEN Raised("IBMM")             \* df.iloc[:, 1] out of bounds
            ELSE IF ~IbmmWidthOk(ncols) THEN Raised("IBMM")  \* raise ValueError
            ELSE Returned("IBMM", Table(IBMM_HEADER, ncols, Len(kept)))

\* extract_promminer: tables[0], the header set, a first row without digit
\* dropped
ExtractPromminer(doc) ==
    IF doc.read_raises \/ doc.tables = <<>> THEN Raised("Promminer")
    ELSE LET t == doc.tables[1]
             ncols == Cardinality(t.columns)
         IN IF ncols # Len(PROM_HEADER) \/ t.rows = <<>> THEN Raised("Promminer")
            ELSE Returned("Promminer",
                     Table(PROM_HEADER, ncols,
                           IF t.rows[1] = "data" THEN Len(t.rows) ELSE Len(t.rows) - 1))

\* the frames of one pass of fallback_tables that are not empty
NonEmptyFrames(tables) == SelectSeq(tables, LAMBDA t : t.rows # <<>>)

\* the frames of both passes
FallbackTablesBoth(doc) ==
    NonEmptyFrames(doc.stream) \o NonEmptyFrames(doc.lattice)

\* fallback_tables: the stream pass, and the lattice pass when the stream
\* pass found nothing
FallbackTables(doc) ==
    IF NonEmptyFrames(doc.stream) # <<>> THEN NonEmptyFrames(doc.stream)
    ELSE NonEmptyFrames(doc.lattice)

\* route_extract(pdf_path)
RouteExtract(doc) ==
    LET name == Lower(doc.name) IN
    IF StartsWith(name, IbmmTokens) THEN ExtractIbmm(doc)
    ELSE IF StartsWith(name, PromminerTokens) THEN ExtractPromminer(doc)
    ELSE IF doc.read_raises THEN Raised("DEFAULT")
    ELSE LET frames == FallbackTables(doc) IN
         Returned("DEFAULT",
            IF frames = <<>> THEN EmptyTable
            ELSE Table(<<>>, Cardinality(ConcatColumns(frames)), Len(ConcatRows(frames))))

(***************************************************************************)
(* main() of pdf_parser.py over the PDFs of one collection directory.      *)
(***************************************************************************)
\* the names of the model
Names ==
    {<<"i", "b", "m", "m", "_", "m">>, <<"I", "B", "M", "M", "_", "M">>,
     <<"i", "b">>, <<"P", "r", "o", "m", "m", "i", "n", "e", "r", "_", "1">>,
     <<"u", "m">>}

\* the widest table Tabula reads in the model
MaxColumns == 8

\* the tables of one pass
TableLists ==
    {<<>>} \cup
    {<<[columns |-> 1..n, rows |-> rows]>> :
        n \in {1, 5, 6, 7} \cup (8..MaxColumns),
        rows \in {<<>>, <<"header">>, <<"header", "data">>, <<"data", "model_only">>}}
    \cup {<<[columns |-> 1..4, rows |-> <<"data">>], [columns |-> 4..7, rows |-> <<"data">>]>>}

\* what one pass finds in a file in which both passes find something
PassTables ==
    {<<[columns |-> 1..4, rows |-> <<"data">>]>>,
     <<[columns |-> 1..4, rows |-> <<>>], [columns |-> 4..7, rows |-> <<"data", "data">>]>>}

Docs ==
    {[name |-> n, read_raises |-> FALSE, tables |-> t, stream |-> <<>>, lattice |-> t] :
        n \in Names, t \in TableLists}
    \cup {[name |-> n, read_raises |-> FALSE, tables |-> t, stream |-> t, lattice |-> <<>>] :
        n \in Names, t \in TableLists}
    \cup {[name |-> n, read_raises |-> TRUE, tables |-> <<>>, stream |-> <<>>, lattice |-> <<>>] :
        n \in Names}
    \cup {[name |-> <<"u", "m">>, read_raises |-> FALSE, tables |-> s, stream |-> s, lattice |-> l] :
        s \in PassTables, l \in PassTables}

\* df.empty
IsEmpty(table) == table.columns = 0 \/ table.rows = 0

\* one turn of the loop over input_dir.glob("*.pdf"): route_extract, then
\* the file is skipped when the table is empty and written otherwise; an
\* exception of route_extract leaves main
ExtractOne(doc) ==
    /\ ext_pc = "running"
    /\ doc \in ext_dir
    /\ ext_dir' = ext_dir \ {doc}
    /\ LET got == RouteExtract(doc) IN
         /\ ext_last' = [file |-> doc.name, raised |-> got.raised,
                         profile |-> got.profile, table |-> got.table,
                         stream |-> doc.stream, lattice |-> doc.lattice]
         /\ ext_pc' = IF got.raised THEN "raised" ELSE "running"
         /\ ext_out' = IF got.raised \/ IsEmpty(got.table) THEN ext_out
                       ELSE ext_out \cup {doc.name}
    /\ UNCHANGED <<fwdVars, cfgVars, mainVars, pipeVars>>

\* the loop is over
ExtractDone ==
    /\ ext_pc = "running"
    /\ ext_dir = {}
    /\ ext_pc' = "done"
    /\ UNCHANGED <<ext_dir, ext_out, ext_last, fwdVars, cfgVars, mainVars, pipeVars>>

ExtractInit ==
    /\ FORWARDING_CONFIG = <<>>
    /\ SOURCE_CHAT_IDS = <<>>
    /\ chat_info = <<>>
    /\ registered = FALSE
    /\ config_file = NoFile
    /\ access = [c \in Chats |-> "dialog"]
    /\ mode = "collect-only"
    /\ main_pc = "idle"
    /\ started = TRUE
    /\ collector_registered = TRUE
    /\ startups = 1
    /\ validation = [ran |-> FALSE, problematic |-> {}]
    /\ saved = NoConfig
    /\ media_groups_buffer = <<>>
    /\ units = <<>>
    /\ PipeIdle
    /\ inbox = {}
    /\ faults = 0
    /\ \E d1, d2 \in Docs : d1.name # d2.name /\ ext_dir = {d1, d2}
    /\ ext_pc = "running"
    /\ ext_out = {}
    /\ ext_last = NoExtract

ExtractNext == (\E doc \in ext_dir : ExtractOne(doc)) \/ ExtractDone

SpecExtract == ExtractInit /\ [][ExtractNext]_vars

(***************************************************************************)
(* save_config followed by load_saved_config, over the configurations of   *)
(* a bounded domain.                                                       *)
(***************************************************************************)
RoundTripIds == {-120, -7, 0, 13}

RoundTripLists == {<<>>, <<13>>, <<-7, 0>>, <<-120, -120, 13>>}

\* {name, username?, type} entries, a username being absent or present
RoundTripEntries ==
    {("name" :> "Two") @@ ("type" :> "GROUP"),
     ("name" :> "Source") @@ ("username" :> "src") @@ ("type" :> "CHANNEL"),
     ("type" :> "PRIVATE")}

\* the dicts with keys among ids and values among values
Dicts(ids, values) == UNION {[S -> values] : S \in SUBSET ids}

RoundTripInit ==
    /\ SOURCE_CHAT_IDS \in RoundTripLists
    /\ FORWARDING_CONFIG \in Dicts(RoundTripIds \ {0}, RoundTripLists \ {<<>>})
    /\ chat_info \in Dicts({-120, 0, 13}, RoundTripEntries)
    /\ registered = FALSE
    /\ config_file = NoFile
    /\ access = [c \in Chats |-> "dialog"]
    /\ mode = "full"
    /\ main_pc = "save"
    /\ started = FALSE
    /\ collector_registered = FALSE
    /\ startups = 1
    /\ validation = [ran |-> FALSE, problematic |-> {}]
    /\ saved = NoConfig
    /\ media_groups_buffer = <<>>
    /\ units = <<>>
    /\ PipeIdle
    /\ inbox = {}
    /\ faults = 0
    /\ ext_dir = {}
    /\ ext_pc = "done"
    /\ ext_out = {}
    /\ ext_last = NoExtract

\* save_config(source_chat_ids, forwarding_config, chat_info)
RoundTripSave ==
    /\ main_pc = "save"
    /\ config_file' = SaveConfig(SOURCE_CHAT_IDS, FORWARDING_CONFIG, chat_info)
    /\ main_pc' = "saved"
    /\ UNCHANGED <<pipeVars, extVars, fwdVars, FORWARDING_CONFIG, SOURCE_CHAT_IDS, chat_info,
                   registered, access, mode, started, collector_registered, startups,
                   validation, saved>>

\* load_saved_config()
RoundTripLoad ==
    /\ main_pc = "saved"
    /\ saved' = LoadSavedConfig(config_file)
    /\ main_pc' = "loaded"
    /\ UNCHANGED <<pipeVars, extVars, fwdVars, cfgVars, mode, started, collector_registered,
                   startups, validation>>

RoundTripNext == RoundTripSave \/ RoundTripLoad

SpecRoundTrip == RoundTripInit /\ [][RoundTripNext]_vars

(***************************************************************************)
(* The bot at rest, for the specifications of the PDF functions.           *)
(***************************************************************************)
BotIdle ==
    /\ FORWARDING_CONFIG = <<>>
    /\ SOURCE_CHAT_IDS = <<>>
    /\ chat_info = <<>>
    /\ registered = FALSE
    /\ config_file = NoFile
    /\ access = [c \in Chats |-> "dialog"]
    /\ mode = "collect-only"
    /\ main_pc = "idle"
    /\ started = TRUE
    /\ collector_registered = TRUE
    /\ startups = 1
    /\ validation = [ran |-> FALSE, problematic |-> {}]
    /\ saved = NoConfig
    /\ media_groups_buffer = <<>>
    /\ units = <<>>
    /\ inbox = {}
    /\ faults = 0
    /\ ext_dir = {}
    /\ ext_pc = "done"
    /\ ext_out = {}
    /\ ext_last = NoExtract

(***************************************************************************)
(* Row bands of the OCR extractors: prominer_cv2.extract_promminer and     *)
(* uminers_cv2.extract_uminers, from the contours to the rows.             *)
(***************************************************************************)
MinInt(a, b) == IF a < b THEN a ELSE b
MaxInt(a, b) == IF a > b THEN a ELSE b

\* if h > 5
MinBoxHeight == 5
\* if y0 - cur[-1][1] < 10 (Promminer), < 12 (Uminers)
MergeGapPromminer == 10
MergeGapUminers == 12
\* min(c)[0] - 2, max(c)[1] + 2
BandPad == 2
\* if max(r)[1] - min(r)[0] > 18 (Uminers)
MinBandSpan == 18
\* if len(rows) < 5: 20 rows of equal height (Promminer)
MinRows == 5
GridRows == 20

MergeGap(profile) == IF profile = "Promminer" THEN MergeGapPromminer ELSE MergeGapUminers

\* boxes = [(y, y + h) for ... if h > 5]
BoxesOf(cnts) ==
    LET kept == SelectSeq(cnts, LAMBDA c : c.h > MinBoxHeight)
    IN [i \in DOMAIN kept |-> <<kept[i].y, kept[i].y + kept[i].h>>]

\* the order of tuples
TupleLess(a, b) == a[1] < b[1] \/ (a[1] = b[1] /\ a[2] < b[2])

RECURSIVE InsertBox(_, _)
InsertBox(b, s) ==
    IF s = <<>> THEN <<b>>
    ELSE IF TupleLess(b, Head(s)) THEN <<b>> \o s
    ELSE <<Head(s)>> \o InsertBox(b, Tail(s))

RECURSIVE SortBoxes(_)
\* sorted(boxes), boxes.sort()
SortBoxes(s) == IF s = <<>> THEN <<>> ELSE InsertBox(Head(s), SortBoxes(Tail(s)))

RECURSIVE Clusterize(_, _, _, _)
\* the loop over boxes[1:]: a box joins cur when it starts less than the
\* merge gap below the end of the last box of cur
Clusterize(rest, cur, done, gap) ==
    IF rest = <<>> THEN Append(done, cur)
    ELSE LET b == Head(rest) IN
         IF b[1] - cur[Len(cur)][2] < gap
         THEN Clusterize(Tail(rest), Append(cur, b), done, gap)
         ELSE Clusterize(Tail(rest), <<b>>, Append(done, cur), gap)

\* clusters of the sorted boxes
ClusterBoxes(boxes, gap) ==
    IF boxes = <<>> THEN <<>>
    ELSE Clusterize(Tail(boxes), <<Head(boxes)>>, <<>>, gap)

\* min(c), max(c) of a list of tuples
TupleMin(c) == CHOOSE a \in Range(c) : \A b \in Range(c) : a = b \/ TupleLess(a, b)
TupleMax(c) == CHOOSE a \in Range(c) : \A b \in Range(c) : a = b \/ TupleLess(b, a)

\* (max(0, min(c)[0] - 2), min(bw.shape[0], max(c)[1] + 2))
Band(c, height) ==
    <<MaxInt(0, TupleMin(c)[1] - BandPad), MinInt(height, TupleMax(c)[2] + BandPad)>>

\* the clusters Uminers keeps
TallEnough(c) == TupleMax(c)[2] - TupleMin(c)[1] > MinBandSpan

\* the row bands of the clusters: all of them (Promminer), those of the
\* clusters spanning more than 18 px (Uminers)
RowBands(profile, clusters, height) ==
    LET kept == IF profile = "Promminer" THEN clusters ELSE SelectSeq(clusters, TallEnough)
    IN [i \in DOMAIN kept |-> Band(kept[i], height)]

\* sorting, clustering and banding of boxes
MergeStep(profile, boxes, height) ==
    RowBands(profile, ClusterBoxes(SortBoxes(boxes), MergeGap(profile)), height)

\* the rows cut out of the image: Promminer falls back to 20 equal rows
\* when it found fewer than 5 bands
RowsOf(profile, rowbands, height) ==
    IF profile = "Promminer" /\ Len(rowbands) < MinRows
    THEN LET step == height \div GridRows
         IN [i \in 1..GridRows |-> <<(i - 1) * step, i * step>>]
    ELSE rowbands

\* bw.shape[0] in the model
ImgHeight == 91

\* most contours in one image
MaxBoxes == 5

\* the contours an image of the model can hold
ContourYs == {0, 4, 20, 31, 48, 66, 84}
Candidates ==
    {[y |-> y, h |-> h] : y \in ContourYs, h \in {3, 6}} \cup {[y |-> 0, h |-> 40]}

RECURSIVE SetToSeq(_)
\* the contours in some order
SetToSeq(S) ==
    IF S = {} THEN <<>>
    ELSE LET x == CHOOSE x \in S : TRUE IN <<x>> \o SetToSeq(S \ {x})

BandsInit ==
    /\ BotIdle
    /\ cv_profile \in {"Promminer", "Uminers"}
    /\ \E S \in SUBSET Candidates :
          /\ Cardinality(S) <= MaxBoxes
          /\ contours = SetToSeq(S)
    /\ bands = <<>> /\ rows_px = <<>> /\ rebands = <<>>
    /\ cell_txt = <<>> /\ cell_out = <<>> /\ df = <<>> /\ df_kept = <<>>
    /\ cv_pc = "contours"
    /\ ColIdle
    /\ ScrIdle
    /\ OcrIdle

\* from the contours to the rows
FindRows ==
    /\ cv_pc = "contours"
    /\ bands' = MergeStep(cv_profile, BoxesOf(contours), ImgHeight)
    /\ rows_px' = RowsOf(cv_profile, bands', ImgHeight)
    /\ cv_pc' = "rows"
    /\ UNCHANGED <<cv_profile, contours, rebands, cell_txt, cell_out, df, df_kept,
                   fwdVars, cfgVars, mainVars, extVars, colVars, scrVars, ocrVars>>

\* the bands go through the merge step again
Recluster ==
    /\ cv_pc = "rows"
    /\ rebands' = MergeStep(cv_profile, bands, ImgHeight)
    /\ cv_pc' = "reclustered"
    /\ UNCHANGED <<cv_profile, contours, bands, rows_px, cell_txt, cell_out, df, df_kept,
                   fwdVars, cfgVars, mainVars, extVars, colVars, scrVars, ocrVars>>

BandsNext == FindRows \/ Recluster

SpecBands == BandsInit /\ [][BandsNext]_vars

(***************************************************************************)
(* Cell normalizers of the OCR extractors: _clean_cell and                 *)
(* _fix_hashrate_unit of prominer_cv2.py and uminers_cv2.py, on texts of   *)
(* digits, blanks, the letters h, s, T, G, M and the slash.  The rules for *)
(* characters no such text holds (leading bars, Cyrillic unit letters,     *)
(* availability and month words, the dash of a day range) leave it as is.  *)
(***************************************************************************)
Letters == {"h", "s", "T", "G", "M"}
IsLetter(c) == c \in Letters
IsWordChar(c) == IsDigit(c) \/ IsLetter(c)
IsSpace(c) == c = " "

\* pd.NA
NA == <<"<NA>">>

\* \b before position i (1..Len(t)+1)
WordAt(t, k) == k \in DOMAIN t /\ IsWordChar(t[k])
BoundaryAt(t, i) == WordAt(t, i - 1) # WordAt(t, i)

\* the last position of the longest run of digits, blanks, letters that
\* starts at i (i - 1 when there is none)
DigitsEnd(t, i) ==
    CHOOSE j \in (i - 1)..Len(t) :
        /\ \A k \in i..j : IsDigit(t[k])
        /\ j = Len(t) \/ ~IsDigit(t[j + 1])
SpacesEnd(t, i) ==
    CHOOSE j \in (i - 1)..Len(t) :
        /\ \A k \in i..j : IsSpace(t[k])
        /\ j = Len(t) \/ ~IsSpace(t[j + 1])
LettersEnd(t, i) ==
    CHOOSE j \in (i - 1)..Len(t) :
        /\ \A k \in i..j : IsLetter(t[k])
        /\ j = Len(t) \/ ~IsLetter(t[j + 1])

\* w stands in t at position k
HasAt(t, k, w) == k >= 1 /\ k + Len(w) - 1 <= Len(t) /\ SubSeq(t, k, k + Len(w) - 1) = w

MinOf(S) == CHOOSE x \in S : \A y \in S : x <= y

\* a number starts at i: \b(\d+)
NumberAt(t, i) == i \in DOMAIN t /\ IsDigit(t[i]) /\ BoundaryAt(t, i)

BareUnit == <<"h", "/", "s">>

\* re.search(r"\b(\d+)\s*h/s\b", txt) matches from i
HashMatchAt(t, i) ==
    /\ NumberAt(t, i)
    /\ LET k == SpacesEnd(t, DigitsEnd(t, i) + 1) + 1
       IN HasAt(t, k, BareUnit) /\ BoundaryAt(t, k + 3)

\* h/s\b stands at p
UnitAt(t, p) == HasAt(t, p, BareUnit) /\ BoundaryAt(t, p + 3)

\* "Gh/s" if val < 1000 else "Mh/s"
UnitThreshold == 1000

\* the prefix chosen whatever the value
UnitPrefixAlwaysG(val) == "G"

UnitPrefix(val) == IF val < UnitThreshold THEN "G" ELSE "M"

\* _fix_hashrate_unit(txt): the first h/s of the text gets the prefix that
\* the number of the first match calls for
FixHashrateUnit(t) ==
    LET starts == {i \in DOMAIN t : HashMatchAt(t, i)} IN
    IF starts = {} THEN t
    ELSE LET i == MinOf(starts)
             val == DigitsToNat(SubSeq(t, i, DigitsEnd(t, i)))
             p == MinOf({q \in DOMAIN t : UnitAt(t, q)})
         IN SubSeq(t, 1, p - 1) \o <<UnitPrefix(val)>> \o SubSeq(t, p, Len(t))

RECURSIVE Strip(_)
\* str.strip()
Strip(t) ==
    IF t = <<>> THEN t
    ELSE IF IsSpace(t[1]) THEN Strip(Tail(t))
    ELSE IF IsSpace(t[Len(t)]) THEN Strip(SubSeq(t, 1, Len(t) - 1))
    ELSE t

RECURSIVE SpaceDigitLetter(_)
\* re.sub(r"(\d)([A-Za-zА-Яа-я])", r"\1 \2", t)
SpaceDigitLetter(t) ==
    IF Len(t) < 2 THEN t
    ELSE IF IsDigit(t[1]) /\ IsLetter(t[2])
    THEN <<t[1], " ", t[2]>> \o SpaceDigitLetter(SubSeq(t, 3, Len(t)))
    ELSE <<t[1]>> \o SpaceDigitLetter(Tail(t))

RECURSIVE CollapseSpaces(_)
\* re.sub(r"\s{2,}", " ", t)
CollapseSpaces(t) ==
    IF Len(t) < 2 THEN t
    ELSE IF IsSpace(t[1]) /\ IsSpace(t[2]) THEN CollapseSpaces(Tail(t))
    ELSE <<t[1]>> \o CollapseSpaces(Tail(t))

\* DAY_PLUR matches from i: a number, blanks, 2 to 4 letters, \b
DayMatchAt(t, i) ==
    /\ NumberAt(t, i)
    /\ LET j == DigitsEnd(t, i)
           k == SpacesEnd(t, j + 1)
           l == LettersEnd(t, k + 1)
       IN k > j /\ l - k \in 2..4 /\ BoundaryAt(t, l + 1)

RECURSIVE DayPlur(_)
\* DAY_PLUR.sub(r"\1 дней", t)
DayPlur(t) ==
    LET starts == {i \in DOMAIN t : DayMatchAt(t, i)} IN
    IF starts = {} THEN t
    ELSE LET i == MinOf(starts)
             j == DigitsEnd(t, i)
             l == LettersEnd(t, SpacesEnd(t, j + 1) + 1)
         IN SubSeq(t, 1, j) \o <<" ", "days">> \o DayPlur(SubSeq(t, l + 1, Len(t)))

\* where r"\b(\d+)\s*s1?\b" ends when it matches from i, 0 when it does not
PriceEnd(t, i) ==
    IF ~NumberAt(t, i) THEN 0
    ELSE LET k == SpacesEnd(t, DigitsEnd(t, i) + 1) + 1 IN
         IF ~HasAt(t, k, <<"s">>) THEN 0
         ELSE IF HasAt(t, k + 1, <<"1">>) /\ BoundaryAt(t, k + 2) THEN k + 1
         ELSE IF BoundaryAt(t, k + 1) THEN k
         ELSE 0

RECURSIVE PriceFix(_)
\* re.sub(r"\b(\d+)\s*s1?\b", r"\1 $", t)
PriceFix(t) ==
    LET starts == {i \in DOMAIN t : PriceEnd(t, i) > 0} IN
    IF starts = {} THEN t
    ELSE LET i == MinOf(starts)
         IN SubSeq(t, 1, DigitsEnd(t, i)) \o <<" ", "$">>
            \o PriceFix(SubSeq(t, PriceEnd(t, i) + 1, Len(t)))

\* prominer_cv2._clean_cell(v)
CleanCellPromminer(v) ==
    CollapseSpaces(FixHashrateUnit(PriceFix(SpaceDigitLetter(DayPlur(Strip(v))))))

\* pdf_parser._clean_cell(x): trimmed, empty is NA
BaseCleanCell(v) == IF Strip(v) = <<>> THEN NA ELSE Strip(v)

\* _SLASH_ZERO_PAT matches from i: (\d)/0\s*Th
SlashZeroEnd(t, i) ==
    IF i \in DOMAIN t /\ IsDigit(t[i]) /\ HasAt(t, i + 1, <<"/", "0">>)
    THEN LET k == SpacesEnd(t, i + 3) + 1 IN
         IF HasAt(t, k, <<"T", "h">>) THEN k + 1 ELSE 0
    ELSE 0

RECURSIVE FixHashrateOcr(_)
\* _fix_hashrate_ocr(txt): "d/0 Th" becomes "d70 Th"
FixHashrateOcr(t) ==
    LET starts == {i \in DOMAIN t : SlashZeroEnd(t, i) > 0} IN
    IF starts = {} THEN t
    ELSE LET i == MinOf(starts)
         IN SubSeq(t, 1, i) \o <<"7", "0", " ", "T", "h">>
            \o FixHashrateOcr(SubSeq(t, SlashZeroEnd(t, i) + 1, Len(t)))

\* uminers_cv2._clean_cell(v, col) for a column that is neither the model
\* nor the note
CleanCellUminers(v) ==
    LET t == BaseCleanCell(v) IN
    IF t = NA THEN NA
    ELSE LET u == Strip(CollapseSpaces(FixHashrateUnit(FixHashrateOcr(t))))
         IN IF u = <<>> THEN NA ELSE u

\* the normalizer of a profile
CleanCell(profile, v) ==
    IF profile = "Promminer" THEN CleanCellPromminer(v) ELSE CleanCellUminers(v)

\* most blanks between the number and what follows it
MaxBlanks == 2

\* the numbers and the suffixes OCR reads in the model
CellNumbers == {0, 5, 99, 850, 999, 1000, 1001, 9050, 10000}
CellSuffixes == {<<>>, BareUnit, <<"T", "h", "/", "s">>, <<"/", "0", "T", "h">>, <<"s">>}

Blanks(n) == [i \in 1..n |-> " "]

CellTexts ==
    {NatToStr(n) \o Blanks(b) \o x : n \in CellNumbers, b \in 0..MaxBlanks, x \in CellSuffixes}

CellsInit ==
    /\ BotIdle
    /\ cv_profile \in {"Promminer", "Uminers"}
    /\ cell_txt \in CellTexts
    /\ cell_out = <<>>
    /\ contours = <<>> /\ bands = <<>> /\ rows_px = <<>> /\ rebands = <<>>
    /\ df = <<>> /\ df_kept = <<>>
    /\ cv_pc = "cell"
    /\ ColIdle
    /\ ScrIdle
    /\ OcrIdle

\* .map(_clean_cell)
CleanOneCell ==
    /\ cv_pc = "cell"
    /\ cell_out' = CleanCell(cv_profile, cell_txt)
    /\ cv_pc' = "cleaned"
    /\ UNCHANGED <<cv_profile, cell_txt, contours, bands, rows_px, rebands, df, df_kept,
                   fwdVars, cfgVars, mainVars, extVars, colVars, scrVars, ocrVars>>

CellsNext == CleanOneCell

SpecCells == CellsInit /\ [][CellsNext]_vars

(***************************************************************************)
(* The garbage-row filter of the Uminers extractor, _drop_garbage_rows.    *)
(* A row holds the hashrate text as OCR gave it and the three price cells  *)
(* after _clean_number: digits only, or NA.                                *)
(***************************************************************************)
\* Series.str.contains(r"\d", na=False)
HasDigit(cell) == cell # NA /\ \E k \in DOMAIN cell : IsDigit(cell[k])

\* a row passes only with a digit in every price column
PriceMaskAll(row) ==
    HasDigit(row.price_ue) /\ HasDigit(row.price_rub) /\ HasDigit(row.price_usd)

PriceMask(row) ==
    HasDigit(row.price_ue) \/ HasDigit(row.price_rub) \/ HasDigit(row.price_usd)

HashrateMask(row) == HasDigit(row.hashrate)

KeepRow(row) == PriceMask(row) /\ HashrateMask(row)

\* df.loc[price_mask & hashrate_mask].reset_index(drop=True)
DropGarbageRows(d) == SelectSeq(d, KeepRow)

\* most rows of a frame
MaxRows == 3

HashrateCells == {<<>>, <<"T", "h">>, <<"9", "0", " ", "T", "h">>}
PriceCells ==
    {<<NA, NA, NA>>, <<<<"5">>, NA, NA>>, <<NA, <<"5">>, NA>>, <<NA, NA, <<"5">>>>,
     <<<<"5">>, <<"5">>, <<"5">>>>}

OcrRows ==
    {[hashrate |-> h, price_ue |-> p[1], price_rub |-> p[2], price_usd |-> p[3]] :
        h \in HashrateCells, p \in PriceCells}

Frames == UNION {[1..n -> OcrRows] : n \in 0..MaxRows}

RowsInit ==
    /\ BotIdle
    /\ cv_profile = "Uminers"
    /\ df \in Frames
    /\ df_kept = <<>>
    /\ contours = <<>> /\ bands = <<>> /\ rows_px = <<>> /\ rebands = <<>>
    /\ cell_txt = <<>> /\ cell_out = <<>>
    /\ cv_pc = "frame"
    /\ ColIdle
    /\ ScrIdle
    /\ OcrIdle

\* df = _drop_garbage_rows(df)
DropGarbage ==
    /\ cv_pc = "frame"
    /\ df_kept' = DropGarbageRows(df)
    /\ cv_pc' = "filtered"
    /\ UNCHANGED <<cv_profile, df, contours, bands, rows_px, rebands, cell_txt, cell_out,
                   fwdVars, cfgVars, mainVars, extVars, colVars, scrVars, ocrVars>>

RowsNext == DropGarbage

SpecRows == RowsInit /\ [][RowsNext]_vars

(***************************************************************************)
(* The OCR loop of extract_promminer and extract_uminers: for every row    *)
(* band and every column the cell is cut out and handed to                 *)
(* pytesseract.image_to_string; the rows with a non-empty cell make data,  *)
(* and the frame is built from data.  The cleaning of the frame follows.   *)
(***************************************************************************)
\* what the OCR of a cell does: it gives a text, gives only blanks, is not
\* run since the cell is too small, or raises
CellAnswers == {"text", "blank", "small", "raise"}

\* the columns of the grid, and the most rows it has
OcrColumns == 2
MaxGridRows == 2

Grids == UNION {[1..n -> [1..OcrColumns -> CellAnswers]] : n \in 0..MaxGridRows}

\* txt.strip().replace("\n", " ") of the cell in row r, column c
Recognized(r, c) == <<"r", r, "c", c>>

\* pytesseract.image_to_string raises for a cell of the row: nothing in the
\* loops catches it, it reaches the except of the function
OcrRaises(row) == \E c \in DOMAIN row : row[c] = "raise"

\* row / row_vals at the end of the inner loop
RowTexts(r, row) ==
    [c \in DOMAIN row |-> IF row[c] = "text" THEN Recognized(r, c) ELSE <<>>]

\* any(row)
AnyText(texts) == \E c \in DOMAIN texts : texts[c] # <<>>

\* what tabula finds for the file when extract_uminers falls back to it
TabulaRows == <<<<<<"tabula">>>>>>

OcrInit ==
    /\ BotIdle
    /\ cv_profile \in {"Promminer", "Uminers"}
    /\ contours = <<>> /\ bands = <<>> /\ rows_px = <<>> /\ rebands = <<>>
    /\ cell_txt = <<>> /\ cell_out = <<>> /\ df = <<>> /\ df_kept = <<>>
    /\ cv_pc = "ocr"
    /\ ColIdle
    /\ ScrIdle
    /\ ocr_grid \in Grids
    /\ data = <<>>
    /\ ocr_at = 1
    /\ ocr_df = <<>>

ocrFrame == <<fwdVars, cfgVars, mainVars, extVars, colVars, scrVars, cv_profile, contours,
              bands, rows_px, rebands, cell_txt, cell_out, df, df_kept, ocr_grid>>

\* one turn of the loop over rows: the cells of the row are recognized and
\* the row is appended to data when it has a text; an exception of a cell
\* ends the function in its except clause, which returns an empty frame
OcrRow ==
    /\ cv_pc = "ocr"
    /\ ocr_at <= Len(ocr_grid)
    /\ LET row == ocr_grid[ocr_at]
           texts == RowTexts(ocr_at, row)
       IN IF OcrRaises(row)
          THEN /\ ocr_df' = <<>>
               /\ cv_pc' = "returned"
               /\ UNCHANGED <<data, ocr_at>>
          ELSE /\ data' = IF AnyText(texts) THEN Append(data, texts) ELSE data
               /\ ocr_at' = ocr_at + 1
               /\ UNCHANGED <<ocr_df, cv_pc>>
    /\ UNCHANGED ocrFrame

\* after the loop: without data extract_promminer returns an empty frame and
\* extract_uminers what tabula finds (an empty frame when that is nothing,
\* pd.concat raising on an empty list); otherwise the frame of data
BuildFrame ==
    /\ cv_pc = "ocr"
    /\ ocr_at > Len(ocr_grid)
    /\ IF data # <<>> THEN ocr_df' = data
       ELSE IF cv_profile = "Promminer" THEN ocr_df' = <<>>
       ELSE \E found \in BOOLEAN : ocr_df' = IF found THEN TabulaRows ELSE <<>>
    /\ cv_pc' = "returned"
    /\ UNCHANGED <<ocrFrame, data, ocr_at>>

OcrNext == OcrRow \/ BuildFrame

SpecOcr == OcrInit /\ [][OcrNext]_vars

(***************************************************************************)
(* The collection of price lists: collect_pdf_files of pdf_collector.py,   *)
(* and what collect_handler (the collect command) and                      *)
(* collect_data_to_google_sheets_cron_job (the cron job) do once it has    *)
(* returned.  The model starts where the chats of the collect folder are   *)
(* known and collect_pdf_files is called.                                  *)
(***************************************************************************)
\* document.file_name of a document that has none
NoName == <<"<None>">>

\* no message: latest_pdf = None, latest_date = None
NoPdf == [doc |-> FALSE, file_name |-> NoName, date |-> 0]

\* settings.pdf_collector.pdf_filename_keywords, two of them
Keywords == {<<"p", "r", "i", "c", "e">>, <<"c", "a", "t", "a", "l", "o", "g">>}

\* the chats whose title is in no_pdf_filename_check_chats
ExemptChats == {2}

\* str.endswith
EndsWith(name, suffix) ==
    Len(name) >= Len(suffix) /\ SubSeq(name, Len(name) - Len(suffix) + 1, Len(name)) = suffix

\* needle in text
Contains(text, needle) == \E k \in 1..Len(text) : HasAt(text, k, needle)

\* msg.document and msg.document.file_name.endswith(".pdf")
IsPdf(msg) == msg.doc /\ EndsWith(msg.file_name, <<".", "p", "d", "f">>)

\* is_match of the loop body
IsMatch(chat_id, msg) ==
    \/ chat_id \in ExemptChats
    \/ \E keyword \in Keywords : Contains(Lower(msg.file_name), Lower(keyword))

\* the older message wins
NewerIsOlder(msg, latest) == latest = NoPdf \/ msg.date < latest.date

\* latest_date is None or msg.date > latest_date
Newer(msg, latest) == latest = NoPdf \/ msg.date > latest.date

RECURSIVE LatestPdf(_, _, _)
\* the loop over get_chat_history: latest_pdf once the messages are read
LatestPdf(chat_id, msgs, latest) ==
    IF msgs = <<>> THEN latest
    ELSE LatestPdf(chat_id, Tail(msgs),
                   IF IsPdf(Head(msgs)) /\ IsMatch(chat_id, Head(msgs)) /\ Newer(Head(msgs), latest)
                   THEN Head(msgs) ELSE latest)

\* None.endswith raises AttributeError
ScanRaises(msgs) == \E k \in DOMAIN msgs : msgs[k].doc /\ msgs[k].file_name = NoName

\* the entries collect_pdf_files appends to collection_log (chat_name, sender and
\* file_path, which follow from the chat and the message, are left out)
SuccessEntry(chat_id, msg) ==
    [chat_id |-> chat_id, files_count |-> 1,
     files |-> <<[file_name |-> msg.file_name, date |-> msg.date]>>]
ErrorEntry(chat_id) == [chat_id |-> chat_id, error |-> "Exception"]

\* chat.title of the chats of the model; the second chat has none
ChatTitle(chat_id) ==
    CASE chat_id = 1 -> <<"A", "/", "B">>
      [] chat_id = 2 -> <<>>
      [] OTHER -> <<"A", ":", "B">>

\* str(message.chat.id)
IdDigits == <<"1", "2", "3", "4", "5", "6", "7", "8", "9">>
IdStr(chat_id) == <<IdDigits[chat_id]>>

\* the characters re.sub(r"[^\w\-_\. ]", "_", chat_title) keeps
WordChars == {"A", "B", "C", "1", "2", "3", "4", "5", "6", "7", "8", "9", "-", "_", ".", " "}
Sanitize(title) == [k \in DOMAIN title |-> IF title[k] \in WordChars THEN title[k] ELSE "_"]

\* download_pdf names the file after the title of the chat, or after its
\* id when it has no title, in save_dir
FilePath(chat_id) ==
    Sanitize(IF ChatTitle(chat_id) = <<>> THEN IdStr(chat_id) ELSE ChatTitle(chat_id))
        \o <<".", "p", "d", "f">>

\* what get_chat, get_chat_history or download_media may raise
CollectFaults == {"none", "FloodWait", "Exception"}

\* most messages get_chat_history gives for a chat
MaxMsgs == 3

\* the messages of the model, newest first in a history
PdfNames ==
    {<<"p", "r", "i", "c", "e", ".", "p", "d", "f">>,
     <<"P", "R", "i", "c", "e", ".", "p", "d", "f">>,
     <<"m", ".", "p", "d", "f">>,
     <<"p", "r", "i", "c", "e", ".", "P", "d", "f">>}
ChatMsgs ==
    {[doc |-> TRUE, file_name |-> n, date |-> 2] : n \in PdfNames}
    \cup {[doc |-> TRUE, file_name |-> <<"p", "r", "i", "c", "e", ".", "p", "d", "f">>, date |-> 1],
          [doc |-> TRUE, file_name |-> <<"m", ".", "p", "d", "f">>, date |-> 3],
          [doc |-> TRUE, file_name |-> NoName, date |-> 1],
          [doc |-> FALSE, file_name |-> NoName, date |-> 1]}
Histories == UNION {[1..n -> ChatMsgs] : n \in 0..MaxMsgs}

\* the chats of the collect folder
FolderChats == {<<1>>, <<2>>, <<1, 2>>, <<2, 1>>, <<1, 3>>, <<3, 2>>}

CollectInit ==
    /\ BotIdle
    /\ cv_profile = "" /\ contours = <<>> /\ bands = <<>> /\ rows_px = <<>> /\ rebands = <<>>
    /\ cell_txt = <<>> /\ cell_out = <<>> /\ df = <<>> /\ df_kept = <<>>
    /\ cv_pc = "idle"
    /\ col_path \in {"handler", "cron"}
    /\ chat_ids \in FolderChats
    /\ scanned = <<>> /\ downloaded = <<>>
    /\ collection_log = <<>> /\ all_files = <<>> /\ col_i = 0 /\ stages = <<>>
    /\ col_pc = "collecting"
    /\ wrapper = "idle" /\ command = <<>>
    /\ status = IF col_path = "handler" THEN "progress" ELSE ""
    /\ ScrIdle
    /\ OcrIdle

\* what the collection leaves alone, without and with the status message
hdlFrame == <<fwdVars, cfgVars, mainVars, extVars, cvVars, scrVars, ocrVars, col_path, wrapper, command>>
colFrame == <<hdlFrame, status>>

\* an error of get_chat leaves the loop over the chats
GetChatLeavesOnError ==
    /\ col_pc = "collecting"
    /\ col_i < Len(chat_ids)
    /\ scanned' = <<>>
    /\ downloaded' = <<>>
    /\ \E fault \in CollectFaults :
        /\ collection_log' = IF fault = "Exception"
                             THEN Append(collection_log, ErrorEntry(chat_ids[col_i + 1]))
                             ELSE collection_log
        /\ col_pc' = IF fault = "none" THEN "scanning" ELSE "report"
        /\ col_i' = col_i
    /\ UNCHANGED <<colFrame, chat_ids, all_files, stages>>

\* a turn of "for chat_id in chat_ids" begins: get_chat, then latest_pdf
\* and latest_date are None; on FloodWait the handler sleeps, any other
\* exception is logged as the error of the chat
GetChat ==
    /\ col_pc = "collecting"
    /\ col_i < Len(chat_ids)
    /\ scanned' = <<>>
    /\ downloaded' = <<>>
    /\ \E fault \in CollectFaults :
        /\ collection_log' = IF fault = "Exception"
                             THEN Append(collection_log, ErrorEntry(chat_ids[col_i + 1]))
                             ELSE collection_log
        /\ col_pc' = CASE fault = "none" -> "scanning"
                       [] fault = "FloodWait" -> "flood_sleep"
                       [] OTHER -> "collecting"
        /\ col_i' = IF fault = "Exception" THEN col_i + 1 ELSE col_i
    /\ UNCHANGED <<colFrame, chat_ids, all_files, stages>>

\* the rest of the turn: the history is read, the latest matching PDF is
\* downloaded and logged; get_chat_history and download_media fail as
\* get_chat does
ScanChat ==
    /\ col_pc = "scanning"
    /\ \E msgs \in Histories, fault \in CollectFaults :
        LET chat_id == chat_ids[col_i + 1]
            latest_pdf == LatestPdf(chat_id, msgs, NoPdf)
            raised == IF fault # "none" THEN fault
                      ELSE IF ScanRaises(msgs) THEN "Exception" ELSE "none"
        IN /\ scanned' = msgs
           /\ IF raised = "none" /\ latest_pdf # NoPdf
              THEN /\ downloaded' = <<latest_pdf>>
                   /\ collection_log' = Append(collection_log, SuccessEntry(chat_id, latest_pdf))
                   /\ all_files' = Append(all_files, FilePath(chat_id))
              ELSE /\ downloaded' = <<>>
                   /\ collection_log' = IF raised = "Exception"
                                        THEN Append(collection_log, ErrorEntry(chat_id))
                                        ELSE collection_log
                   /\ all_files' = all_files
           /\ col_i' = IF raised = "FloodWait" THEN col_i ELSE col_i + 1
           /\ col_pc' = IF raised = "FloodWait" THEN "flood_sleep" ELSE "collecting"
    /\ UNCHANGED <<colFrame, chat_ids, stages>>

\* except FloodWait: asyncio.sleep(fw.value) is over, the turn of the chat
\* ends and the loop goes to the next chat id
FloodSlept ==
    /\ col_pc = "flood_sleep"
    /\ col_i' = col_i + 1
    /\ col_pc' = "collecting"
    /\ UNCHANGED <<colFrame, chat_ids, scanned, downloaded, collection_log, all_files, stages>>

\* return collection_log, total_pdfs, chats_with_files, all_files
CollectReturns ==
    /\ col_pc = "collecting"
    /\ col_i = Len(chat_ids)
    /\ scanned' = <<>>
    /\ downloaded' = <<>>
    /\ col_pc' = "report"
    /\ UNCHANGED <<colFrame, chat_ids, collection_log, all_files, col_i, stages>>

\* total_pdfs
TotalPdfs == Len(all_files)

\* how a stage ends
StageResults == {"ok", "Exception"}
\* how upload_collected_files_to_google_sheets ends: it returns the link,
\* raises some exception, or raises gspread's APIError with a status code
\* and a text
PublishResults ==
    {"ok", "Exception", "APIError 403 sharing quota", "APIError 403", "APIError 429 sharing quota"}

\* except gspread.exceptions.APIError
IsApiError(result) == result \notin {"ok", "Exception"}

\* e.response.status_code
StatusCode(result) == IF result = "APIError 429 sharing quota" THEN 429 ELSE 403

\* "sharing quota" in str(e)
QuotaText(result) == result \in {"APIError 403 sharing quota", "APIError 429 sharing quota"}

\* the text alone makes the quota error
SharingQuotaByText(result) == IsApiError(result) /\ QuotaText(result)

\* e.response.status_code == 403 and "sharing quota" in str(e)
SharingQuota(result) == IsApiError(result) /\ StatusCode(result) = 403 /\ QuotaText(result)

\* what the path reports of the upload: the link, the quota warning or an error
Reported(result) ==
    IF result = "ok" THEN "link" ELSE IF SharingQuota(result) THEN "warning" ELSE "error"

\* the text the handler edits into the status message after the upload
StatusOfUpload(result) ==
    IF result = "ok" THEN "success" ELSE IF SharingQuota(result) THEN "warning" ELSE "failure"

Published(result) ==
    Append(stages, [stage |-> "publishing", result |-> result, reported |-> Reported(result)])

Started(stage, result) == Append(stages, [stage |-> stage, result |-> result])

\* collect_handler: the report is written, the result and the files are
\* sent, "extracting" is announced; nothing is caught here
HandlerReport ==
    /\ col_path = "handler"
    /\ col_pc = "report"
    /\ \E result \in StageResults :
        col_pc' = IF result = "ok" THEN "extraction" ELSE "raised"
    /\ status' = "progress"
    /\ UNCHANGED <<hdlFrame, chat_ids, scanned, downloaded, collection_log, all_files, col_i, stages>>

\* collect_handler: pdf_parser_main() and the status edits after it
HandlerExtract ==
    /\ col_path = "handler"
    /\ col_pc = "extraction"
    /\ \E result \in StageResults :
        /\ stages' = Started("extraction", result)
        /\ col_pc' = IF result = "ok" THEN "scrape" ELSE "raised"
    /\ status' = "progress"
    /\ UNCHANGED <<hdlFrame, chat_ids, scanned, downloaded, collection_log, all_files, col_i>>

\* collect_handler: UminersScraper(...).run() and the status edit after it
HandlerScrape ==
    /\ col_path = "handler"
    /\ col_pc = "scrape"
    /\ \E result \in StageResults :
        /\ stages' = Started("scrape", result)
        /\ col_pc' = IF result = "ok" THEN "publishing" ELSE "raised"
    /\ status' = "progress"
    /\ UNCHANGED <<hdlFrame, chat_ids, scanned, downloaded, collection_log, all_files, col_i>>

\* collect_handler: the upload; only the sharing quota error is swallowed
HandlerPublish ==
    /\ col_path = "handler"
    /\ col_pc = "publishing"
    /\ \E result \in PublishResults :
        /\ stages' = Published(result)
        /\ col_pc' = IF result = "ok" \/ SharingQuota(result) THEN "done" ELSE "raised"
        /\ status' = StatusOfUpload(result)
    /\ UNCHANGED <<hdlFrame, chat_ids, scanned, downloaded, collection_log, all_files, col_i>>

\* the cron job: the report is written (its errors are caught), then
\* "if total_pdfs > 0"
CronReport ==
    /\ col_path = "cron"
    /\ col_pc = "report"
    /\ col_pc' = IF TotalPdfs > 0 THEN "extraction" ELSE "done"
    /\ UNCHANGED <<colFrame, chat_ids, scanned, downloaded, collection_log, all_files, col_i, stages>>

\* the cron job: pdf_parser_main() in its try
CronExtract ==
    /\ col_path = "cron"
    /\ col_pc = "extraction"
    /\ \E result \in StageResults : stages' = Started("extraction", result)
    /\ col_pc' = "scrape"
    /\ UNCHANGED <<colFrame, chat_ids, scanned, downloaded, collection_log, all_files, col_i>>

\* the cron job: the scraper in its try
CronScrape ==
    /\ col_path = "cron"
    /\ col_pc = "scrape"
    /\ \E result \in StageResults : stages' = Started("scrape", result)
    /\ col_pc' = "publishing"
    /\ UNCHANGED <<colFrame, chat_ids, scanned, downloaded, collection_log, all_files, col_i>>

\* the cron job: the upload; an APIError other than the sharing quota one
\* is raised again
CronPublish ==
    /\ col_path = "cron"
    /\ col_pc = "publishing"
    /\ \E result \in PublishResults :
        /\ stages' = Published(result)
        /\ col_pc' = IF IsApiError(result) /\ ~SharingQuota(result) THEN "raised" ELSE "done"
    /\ UNCHANGED <<colFrame, chat_ids, scanned, downloaded, collection_log, all_files, col_i>>

CollectNext ==
    \/ GetChat
    \/ ScanChat
    \/ FloodSlept
    \/ CollectReturns
    \/ HandlerReport
    \/ HandlerExtract
    \/ HandlerScrape
    \/ HandlerPublish
    \/ CronReport
    \/ CronExtract
    \/ CronScrape
    \/ CronPublish

SpecCollect == CollectInit /\ [][CollectNext]_vars

(***************************************************************************)
(* The cron job under its timeout: safe_data_collection_wrapper of         *)
(* collect_data.py awaits collect_data_to_google_sheets_cron_job inside    *)
(* asyncio.wait_for.  The timeout cancels the job where it awaits: the     *)
(* folder lookup and collect_pdf_files; the report, the extraction, the    *)
(* scrape and the upload are synchronous calls with no await among them.   *)
(***************************************************************************)
\* how the lookup of the collect folder ends
FolderAnswers == {"found", "missing", "empty", "Exception"}

WrapperInit ==
    /\ BotIdle
    /\ cv_profile = "" /\ contours = <<>> /\ bands = <<>> /\ rows_px = <<>> /\ rebands = <<>>
    /\ cell_txt = <<>> /\ cell_out = <<>> /\ df = <<>> /\ df_kept = <<>>
    /\ cv_pc = "idle"
    /\ col_path = "cron"
    /\ chat_ids = <<>>
    /\ scanned = <<>> /\ downloaded = <<>>
    /\ collection_log = <<>> /\ all_files = <<>> /\ col_i = 0 /\ stages = <<>>
    /\ col_pc = "idle"
    /\ wrapper = "called" /\ command = <<>> /\ status = ""
    /\ ScrIdle
    /\ OcrIdle

wrapFrame == <<fwdVars, cfgVars, mainVars, extVars, cvVars, scrVars, ocrVars, col_path, command, status>>

\* the import of the client, then wait_for starts the job
WrapperStart ==
    /\ wrapper = "called"
    /\ \E result \in StageResults :
        /\ wrapper' = IF result = "ok" THEN "waiting" ELSE "False"
        /\ col_pc' = IF result = "ok" THEN "folder" ELSE col_pc
    /\ UNCHANGED <<wrapFrame, chat_ids, scanned, downloaded, collection_log, all_files, col_i, stages>>

\* the cron job: the chats of the collect folder; a missing or empty folder
\* and an exception of the lookup make the job return False
CronFolder ==
    /\ col_path = "cron"
    /\ col_pc = "folder"
    /\ \E answer \in FolderAnswers :
        IF answer = "found"
        THEN chat_ids' \in FolderChats /\ col_pc' = "collecting"
        ELSE chat_ids' = chat_ids /\ col_pc' = "failed"
    /\ UNCHANGED <<wrapFrame, wrapper, scanned, downloaded, collection_log, all_files, col_i, stages>>

\* the job cannot be cancelled where it does not await
Awaiting == col_pc \in {"folder", "collecting", "scanning", "flood_sleep"}

\* the exception of the job leaves the wrapper
WrapperResultPropagates(pc) ==
    IF pc = "done" THEN "True" ELSE IF pc = "raised" THEN "raised" ELSE "False"

\* return success; except asyncio.TimeoutError: return False; except
\* Exception: return False
WrapperResult(pc) == IF pc = "done" THEN "True" ELSE "False"

\* the 600 s are over while the job awaits: wait_for cancels it and raises
\* TimeoutError
WrapperTimeout ==
    /\ wrapper = "waiting"
    /\ Awaiting
    /\ col_pc' = "cancelled"
    /\ wrapper' = WrapperResult("cancelled")
    /\ UNCHANGED <<wrapFrame, chat_ids, scanned, downloaded, collection_log, all_files, col_i, stages>>

\* the job has returned True or False, or has raised
WrapperReturns ==
    /\ wrapper = "waiting"
    /\ col_pc \in {"done", "failed", "raised"}
    /\ wrapper' = WrapperResult(col_pc)
    /\ UNCHANGED <<wrapFrame, chat_ids, scanned, downloaded, collection_log, all_files, col_i, stages,
                   col_pc>>

WrapperNext ==
    \/ WrapperStart
    \/ CronFolder
    \/ GetChat
    \/ ScanChat
    \/ FloodSlept
    \/ CollectReturns
    \/ CronReport
    \/ CronExtract
    \/ CronScrape
    \/ CronPublish
    \/ WrapperTimeout
    \/ WrapperReturns

SpecWrapper == WrapperInit /\ [][WrapperNext]_vars

(***************************************************************************)
(* The collect command from its arrival: collect_handler checks the        *)
(* sender against the admins folder, looks the collect folder up, and      *)
(* goes on as modelled above.                                              *)
(***************************************************************************)
\* who sent the command: a user that is a peer of the admins folder, a
\* user that is not, or nobody (message.from_user is None); and how
\* GetDialogFilters answers for the admins folder
Commands ==
    [sender : {"admin", "stranger", "anonymous"}, admins_folder : {"present", "missing", "Exception"}]

\* an exception of the lookup opens the door
CheckUserPermissionOpenOnError(cmd) ==
    cmd.sender # "anonymous" /\ (cmd.admins_folder = "Exception" \/ cmd.sender = "admin")

\* check_user_permission(client, message)
CheckUserPermission(cmd) ==
    /\ cmd.sender # "anonymous"
    /\ cmd.admins_folder = "present"
    /\ cmd.sender = "admin"

CommandInit ==
    /\ BotIdle
    /\ cv_profile = "" /\ contours = <<>> /\ bands = <<>> /\ rows_px = <<>> /\ rebands = <<>>
    /\ cell_txt = <<>> /\ cell_out = <<>> /\ df = <<>> /\ df_kept = <<>>
    /\ cv_pc = "idle"
    /\ col_path = "handler"
    /\ chat_ids = <<>>
    /\ scanned = <<>> /\ downloaded = <<>>
    /\ collection_log = <<>> /\ all_files = <<>> /\ col_i = 0 /\ stages = <<>>
    /\ col_pc = "permission"
    /\ wrapper = "idle" /\ command \in Commands /\ status = ""
    /\ ScrIdle
    /\ OcrIdle

\* "if not await check_user_permission(client, message)": the refusal is
\* sent and the handler returns
HandlerPermission ==
    /\ col_path = "handler"
    /\ col_pc = "permission"
    /\ col_pc' = IF CheckUserPermission(command) THEN "folder" ELSE "denied"
    /\ status' = IF CheckUserPermission(command) THEN "progress" ELSE ""
    /\ UNCHANGED <<hdlFrame, chat_ids, scanned, downloaded, collection_log, all_files, col_i, stages>>

\* collect_handler: the chats of the collect folder; a missing or empty
\* folder and an exception of the lookup end the handler
HandlerFolder ==
    /\ col_path = "handler"
    /\ col_pc = "folder"
    /\ \E answer \in FolderAnswers :
        IF answer = "found"
        THEN chat_ids' \in FolderChats /\ col_pc' = "collecting" /\ status' = "progress"
        ELSE chat_ids' = chat_ids /\ col_pc' = "stopped" /\ status' = "failure"
    /\ UNCHANGED <<hdlFrame, scanned, downloaded, collection_log, all_files, col_i, stages>>

CommandNext ==
    \/ HandlerPermission
    \/ HandlerFolder
    \/ GetChat
    \/ ScanChat
    \/ FloodSlept
    \/ CollectReturns
    \/ HandlerReport
    \/ HandlerExtract
    \/ HandlerScrape
    \/ HandlerPublish

SpecCommand == CommandInit /\ [][CommandNext]_vars

(***************************************************************************)
(* The web scrape: UminersScraper.process_all_urls of                      *)
(* parser/uminers/scraper.py.  The cards of the catalogue pages are read   *)
(* one after another, then each product is processed by a worker thread    *)
(* and the futures are read in the order they complete.                    *)
(***************************************************************************)
\* what fails while extract_card_data reads a card: nothing, the title
\* link (name and url), or the price
CardFaults == {"none", "title", "price"}

\* what fails while process_product runs for a card: nothing,
\* create_driver, driver.get, the wait for the specification table, or
\* driver.quit in the finally
DetailFaults == {"none", "create_driver", "get", "table", "quit"}

\* most cards on the catalogue pages
MaxCards == 2

Cards ==
    UNION {[1..n -> [card_fault : CardFaults, detail_fault : DetailFaults]] : n \in 0..MaxCards}

\* extract_card_data(card): each field has its own try
ExtractCardData(i, card) ==
    [card |-> i,
     name |-> IF card.card_fault = "title" THEN "Unknown" ELSE "name",
     url |-> IF card.card_fault = "title" THEN "None" ELSE "href",
     price |-> IF card.card_fault = "price" THEN "Price not available" ELSE "price"]

\* the future of process_product ends by an exception: create_driver is
\* called before the try, driver.quit in the finally
FutureRaises(fault) == fault \in {"create_driver", "quit"}

NoRecord == [card |-> 0, model |-> "", hashrate |-> "", price |-> ""]

\* no product gives a record
ProcessProductNone(product, fault) == NoRecord

\* process_product(product): None without url or when the page does not
\* load, else the record, with Unknown fields when the table is missing
ProcessProduct(product, fault) ==
    IF product.url = "None" \/ fault = "get" THEN NoRecord
    ELSE [card |-> product.card,
          model |-> IF fault = "table" THEN "Unknown Unknown" ELSE "model",
          hashrate |-> IF fault = "table" THEN "Unknown" ELSE "hashrate",
          price |-> product.price]

\* the thread of run() and the worker threads, named by their card
MainThread == 0

\* max_workers of UminersScraperConfig
MaxWorkers == 2

\* a session create_driver has just opened for thread t
Session(t) == [by |-> t, users |-> {}, quit |-> FALSE]

\* thread t drives session d
Use(sessions, d, t) == [sessions EXCEPT ![d].users = @ \cup {t}]

\* driver.quit() on session d
Quit(sessions, d) == [sessions EXCEPT ![d].quit = TRUE]

\* how process_product leaves: with the record, with None for a card
\* without url, or by an exception (caught in it or not)
ExitPath(product, fault) ==
    IF product.url = "None" THEN "no url"
    ELSE IF fault \in {"get", "quit"} THEN "exception" ELSE "record"

\* driver.quit() only when the record is returned
QuitsOnRecordOnly(path) == path = "record"

\* finally: driver.quit() runs on every exit path
Quits(path) == path \in {"record", "no url", "exception"}

\* every worker drives the session of the scraper
SharedDriver(i) == 1

\* the driver process_product uses for card i: the one it created
WorkerDriver(i) == scr_futures[i].driver

ScrapeInit ==
    /\ BotIdle
    /\ cv_profile = "" /\ contours = <<>> /\ bands = <<>> /\ rows_px = <<>> /\ rebands = <<>>
    /\ cell_txt = <<>> /\ cell_out = <<>> /\ df = <<>> /\ df_kept = <<>>
    /\ cv_pc = "idle"
    /\ ColIdle
    /\ OcrIdle
    /\ scr_cards \in Cards
    /\ all_product_cards = <<>> /\ scr_done = {} /\ all_products = <<>>
    /\ scr_sessions = <<Session(MainThread)>>
    /\ scr_futures = <<>>
    /\ scr_saved = <<>>
    /\ scr_pc = "pages"

scrFrame == <<fwdVars, cfgVars, mainVars, extVars, cvVars, colVars, ocrVars, scr_cards>>

\* the loop over self.urls: open_url, then extract_product_cards gives the
\* products of the cards, or nothing when the page does not show its cards
\* in time; an exception of open_url leaves process_all_urls, run returns
\* [] and quits its driver
ExtractProductCards ==
    /\ scr_pc = "pages"
    /\ \E page \in {"cards", "no cards", "raises"} :
        /\ all_product_cards' = IF page = "cards"
                                THEN [i \in DOMAIN scr_cards |-> ExtractCardData(i, scr_cards[i])]
                                ELSE <<>>
        /\ scr_sessions' = IF page = "raises"
                           THEN Quit(Use(scr_sessions, 1, MainThread), 1)
                           ELSE Use(scr_sessions, 1, MainThread)
        /\ scr_pc' = IF page = "raises" THEN "done" ELSE "details"
    /\ UNCHANGED <<scrFrame, scr_futures, scr_done, all_products, scr_saved>>

\* the futures not yet started, and those running
Queued == DOMAIN all_product_cards \ DOMAIN scr_futures
RunningFutures == {i \in DOMAIN scr_futures : scr_futures[i].pc = "running"}

\* a free worker thread takes the next product of the queue and calls
\* process_product: create_driver, before the try
WorkerStart ==
    /\ scr_pc = "details"
    /\ Queued # {}
    /\ Cardinality(RunningFutures) < MaxWorkers
    /\ LET i == CHOOSE q \in Queued : \A r \in Queued : q <= r IN
       IF scr_cards[i].detail_fault = "create_driver"
       THEN /\ scr_futures' = scr_futures @@ (i :> [pc |-> "raised", driver |-> 0, result |-> NoRecord])
            /\ scr_sessions' = scr_sessions
       ELSE /\ scr_futures' = scr_futures @@
                  (i :> [pc |-> "running", driver |-> Len(scr_sessions) + 1, result |-> NoRecord])
            /\ scr_sessions' = Append(scr_sessions, Session(i))
    /\ UNCHANGED <<scrFrame, all_product_cards, scr_done, all_products, scr_saved, scr_pc>>

\* the try and the finally of process_product for card i: the page is
\* fetched with the driver, the driver is quit, the record or None is the
\* result of the future, or the exception of driver.quit
WorkerRun(i) ==
    /\ scr_pc = "details"
    /\ i \in RunningFutures
    /\ LET fault == scr_cards[i].detail_fault
           product == all_product_cards[i]
           d == WorkerDriver(i)
           used == IF product.url = "None" THEN scr_sessions ELSE Use(scr_sessions, d, i)
       IN /\ scr_sessions' = IF Quits(ExitPath(product, fault))
                             THEN Quit(used, scr_futures[i].driver) ELSE used
          /\ scr_futures' = [scr_futures EXCEPT
                ![i].pc = IF FutureRaises(fault) THEN "raised" ELSE "returned",
                ![i].result = IF FutureRaises(fault) THEN NoRecord
                              ELSE ProcessProduct(product, fault)]
    /\ UNCHANGED <<scrFrame, all_product_cards, scr_done, all_products, scr_saved, scr_pc>>

\* as_completed gives a future that has completed and it is read: its
\* record is appended, its exception or its None is passed over
FutureDone ==
    /\ scr_pc = "details"
    /\ \E i \in DOMAIN scr_futures \ (scr_done \cup RunningFutures) :
        LET result == scr_futures[i].result
        IN /\ all_products' = IF scr_futures[i].pc = "returned" /\ result # NoRecord
                              THEN Append(all_products, result) ELSE all_products
           /\ scr_done' = scr_done \cup {i}
    /\ UNCHANGED <<scrFrame, all_product_cards, scr_sessions, scr_futures, scr_saved, scr_pc>>

\* save_to_excel(all_products): nothing to save, the workbook, the CSV when
\* the workbook could not be written, or neither; then run returns and its
\* finally quits the driver of the scraper
SaveToExcel ==
    /\ scr_pc = "details"
    /\ scr_done = DOMAIN all_product_cards
    /\ \E written \in {"xlsx", "csv", "nothing"} :
        scr_saved' = IF all_products = <<>> \/ written = "nothing" THEN <<>>
                     ELSE <<[format |-> written, rows |-> all_products]>>
    /\ scr_sessions' = Quit(scr_sessions, 1)
    /\ scr_pc' = "done"
    /\ UNCHANGED <<scrFrame, all_product_cards, scr_futures, scr_done, all_products>>

\* a step of the worker pool or of the loop over as_completed
DetailStep == WorkerStart \/ (\E i \in DOMAIN all_product_cards : WorkerRun(i)) \/ FutureDone

ScrapeNext ==
    \/ ExtractProductCards
    \/ WorkerStart
    \/ \E i \in DOMAIN all_product_cards : WorkerRun(i)
    \/ FutureDone
    \/ SaveToExcel

SpecScrape == ScrapeInit /\ [][ScrapeNext]_vars

(***************************************************************************)
(* Properties of the forwarding engine.                                    *)
(***************************************************************************)
ForwardOps == {"forward_messages", "forward"}
CopyOps == {"copy_media_group", "copy_message_caption", "copy_message",
            "send_message", "send_message_final"}

\* the calls unit u made for destination d, in order
EventsFor(u, d) == SelectSeq(u.log, LAMBDA e : e.dest = d)
Forwards(u, d) == SelectSeq(u.log, LAMBDA e : e.dest = d /\ e.op \in ForwardOps)
Count(u, d, ops) == Len(SelectSeq(u.log, LAMBDA e : e.dest = d /\ e.op \in ops))

\* the destinations unit u has to deliver to
DestsOf(u) == Range(FORWARDING_CONFIG[u.src])

\* the flush tasks that consumed a buffer entry of media group g
FlushesOf(g) ==
    {i \in DOMAIN units : units[i].kind = "group" /\ units[i].mg = g /\ units[i].popped}

GroupIds == {m.mg : m \in AlbumInbox}

Quiescent ==
    /\ inbox = {}
    /\ \A i \in DOMAIN units : units[i].pc = "done"

\* C1: for every media-group id, whatever the interleaving of the arrivals
\* of its messages with the flush task, its buffer entry is consumed exactly
\* once: never by two flushes, and by one once everything has run.
C1_FlushedExactlyOnce ==
    \A g \in GroupIds :
        /\ Cardinality(FlushesOf(g)) <= 1
        /\ (Quiescent /\ \E i \in DOMAIN units : units[i].mg = g)
              => Cardinality(FlushesOf(g)) = 1

IsAscending(ids) == \A i, j \in DOMAIN ids : i < j => ids[i] < ids[j]

\* C2: every forward_messages call of a flush carries the ids of all the
\* messages its buffer entry held, in ascending order, whatever their order
\* of arrival; no destination gets the album forwarded twice, and a flush
\* that has finished has called forward_messages for every destination.
C2_FlushForwardsSortedIds ==
    \A i \in DOMAIN units :
        LET u == units[i] IN
        u.kind = "group" =>
            /\ \A k \in DOMAIN u.log :
                 u.log[k].op = "forward_messages" =>
                    /\ IsAscending(u.log[k].ids)
                    /\ Range(u.log[k].ids) = {m.id : m \in Range(u.buffered)}
                    /\ Len(u.log[k].ids) = Len(u.buffered)
            /\ \A k \in DOMAIN u.log : u.log[k].op \notin {"forward"}
            /\ u.popped /\ u.buffered # <<>> =>
                 \A d \in DestsOf(u) :
                    /\ Len(SelectSeq(Forwards(u, d), LAMBDA e : e.res = "ok")) <= 1
                    /\ u.pc = "done" => Len(Forwards(u, d)) >= 1

\* the album arrived in the order 5, 3, 4 and was forwarded as [3, 4, 5]
C2_Witness ==
    \E i \in DOMAIN units :
        /\ MessageIds(units[i].buffered) = <<5, 3, 4>>
        /\ \E k \in DOMAIN units[i].log :
              /\ units[i].log[k].op = "forward_messages"
              /\ units[i].log[k].ids = <<3, 4, 5>>
              /\ units[i].log[k].res = "ok"

\* whether fallback_copy was invoked by unit u for destination d
FallbackInvoked(u, d) == Count(u, d, {"fallback_copy"}) > 0

\* the primary forward raised FloodWait and the retry failed too, or the
\* primary forward raised an error that is neither FloodWait nor
\* MessageIdInvalid
FallbackDue(u, d) ==
    LET f == Forwards(u, d) IN
    /\ f # <<>>
    /\ \/ f[1].res = "Error"
       \/ f[1].res = "FloodWait" /\ Len(f) >= 2 /\ f[2].res \in Exceptions

\* C3: for every destination of a single message or of a flushed album,
\* fallback_copy is invoked if and only if the primary forward raised
\* FloodWait and the one retry failed, or the primary forward raised an
\* error other than FloodWait and MessageIdInvalid; it is invoked at most once.
C3_FallbackIffForwardFailed ==
    \A i \in DOMAIN units : \A d \in Chats :
        /\ FallbackInvoked(units[i], d) <=> FallbackDue(units[i], d)
        /\ Count(units[i], d, {"fallback_copy"}) <= 1

C3_Witness ==
    \E i \in DOMAIN units : \E d \in Chats :
        LET f == Forwards(units[i], d) IN
        /\ Len(f) = 2 /\ f[1].res = "FloodWait" /\ f[2].res = "FloodWait"
        /\ FallbackInvoked(units[i], d)

\* the forward calls made to destination d that carried message id n
AttemptsOf(n, d) ==
    UNION {{<<i, k>> : k \in {k \in DOMAIN units[i].log :
                                 /\ units[i].log[k].op \in ForwardOps
                                 /\ units[i].log[k].dest = d
                                 /\ n \in Range(units[i].log[k].ids)}} :
           i \in DOMAIN units}

\* the destinations some call was made to
LoggedDests == UNION {{units[i].log[k].dest : k \in DOMAIN units[i].log} : i \in DOMAIN units}

\* the message ids some call carried
LoggedIds ==
    UNION {UNION {Range(units[i].log[k].ids) : k \in DOMAIN units[i].log} : i \in DOMAIN units}

\* C4: after a FloodWait of the primary forward the engine sleeps once, for
\* the signaled duration, and then forwards once more to that destination;
\* no message or album is forward-attempted more than twice to a destination.
C4_OneRetryAfterFloodWait ==
    /\ \A i \in DOMAIN units : \A d \in {units[i].log[k].dest : k \in DOMAIN units[i].log} :
         LET u == units[i]
             f == Forwards(u, d)
             slept == Count(u, d, {"sleep_flood"})
         IN /\ Len(f) <= 2
            /\ slept <= 1
            /\ Len(f) = 2 => f[1].res = "FloodWait" /\ slept = 1
            /\ (f # <<>> /\ f[1].res = "FloodWait") =>
                  /\ slept = 1
                  /\ \/ Len(f) = 2
                     \/ u.pc = "sleep_flood" /\ u.dest = d /\ u.sleep = u.signal
            /\ u.pc = "sleep_flood" => u.sleep = u.signal /\ u.signal \in 1..MaxFloodWait
    /\ \A n \in LoggedIds : \A d \in LoggedDests : Cardinality(AttemptsOf(n, d)) <= 2

C4_Witness ==
    \E i \in DOMAIN units : \E d \in Chats :
        LET f == Forwards(units[i], d) IN
        /\ Len(f) = 2 /\ f[1].res = "FloodWait" /\ f[2].res = "ok"
        /\ Count(units[i], d, {"sleep_flood"}) = 1

\* C5: no delivery ends with an exception, and a delivery that has ended has
\* attempted every destination, whatever failed at the others.
C5_SiblingDestinationsProceed ==
    \A i \in DOMAIN units :
        LET u == units[i] IN
        /\ u.pc # "raised"
        /\ (u.pc = "done" /\ u.msgs # <<>>) =>
              /\ u.todo = {}
              /\ \A d \in DestsOf(u) : Len(Forwards(u, d)) >= 1

\* at one destination the forward, the retry and every step of
\* fallback_copy failed, and the other destination was still forwarded to
C5_Witness ==
    \E i \in DOMAIN units : \E d, d2 \in Chats :
        LET u == units[i] IN
        /\ d # d2
        /\ \E k \in DOMAIN u.log :
              /\ u.log[k].op = "send_message_final" /\ u.log[k].dest = d
              /\ u.log[k].res \in Exceptions
              /\ \E k2 \in DOMAIN u.log :
                    k2 > k /\ u.log[k2].dest = d2 /\ u.log[k2].op \in ForwardOps
        /\ Len(Forwards(u, d)) = 2
        /\ \A k \in DOMAIN u.log : u.log[k].dest = d => u.log[k].res # "ok"

OwnMessages == {m \in AlbumInbox : m.from_me}

\* C6: a message written by the bot itself is ignored: it is in no buffer
\* entry, starts no flush task or delivery, and no call carries its id.
C6_OwnMessagesIgnored ==
    \A m \in OwnMessages :
        /\ \A g \in DOMAIN media_groups_buffer :
              m \notin Range(media_groups_buffer[g].messages)
        /\ m.id \notin DOMAIN units
        /\ \A i \in DOMAIN units :
              /\ m \notin Range(units[i].buffered)
              /\ \A k \in DOMAIN units[i].log : m.id \notin Range(units[i].log[k].ids)

\* the bot's own message of the album has been handled while the album's
\* entry was in the buffer
C6_Witness ==
    /\ \E m \in OwnMessages : m \in AlbumInbox /\ m \notin inbox
    /\ inbox \subseteq AlbumInbox /\ inbox # AlbumInbox
    /\ media_groups_buffer # <<>>

(***************************************************************************)
(* Properties of the startup and of the configuration.                     *)
(***************************************************************************)
\* C7: the forwarding handler is registered only after validate_chats has
\* returned, and while it is registered no step of main or of a handler
\* changes FORWARDING_CONFIG.
C7_ConfigFrozenOnceRegistered ==
    [][/\ registered' => validation'.ran
       /\ (registered /\ registered') => FORWARDING_CONFIG' = FORWARDING_CONFIG]_vars

\* a handler has read the configuration and delivered to a destination
C7_Witness ==
    /\ registered
    /\ validation.ran
    /\ \E i \in DOMAIN units :
          \E k \in DOMAIN units[i].log :
              units[i].log[k].op \in ForwardOps /\ units[i].log[k].res = "ok"

\* the three values load_saved_config reads from the file as it is now
FileConfig == LoadSavedConfig(config_file)

C9_SaveLoadRoundTrip ==
    main_pc = "loaded" =>
        /\ saved.has_config
        /\ saved.source_chat_ids = SOURCE_CHAT_IDS
        /\ saved.forwarding_config = FORWARDING_CONFIG
        /\ saved.chat_info = chat_info
        /\ DOMAIN saved.forwarding_config \subseteq Int
        /\ DOMAIN saved.chat_info \subseteq Int

\* a configuration with a negative and a positive source id went through
\* the file
C9_Witness ==
    /\ main_pc = "loaded"
    /\ \E k, n \in DOMAIN FORWARDING_CONFIG : k < 0 /\ n > 0
    /\ \E k \in DOMAIN chat_info : k < 0
    /\ SOURCE_CHAT_IDS # <<>>

(***************************************************************************)
(* Properties of the extraction router.                                    *)
(***************************************************************************)
\* C10: route_extract never raises: whatever fails inside a profile, the
\* width check of the IBMM profile included, the caller gets an empty
\* table; a table of the IBMM profile that is not empty has 7 columns under
\* the IBMM header.
C10_RouteExtractNeverRaises ==
    /\ ~ext_last.raised
    /\ ext_pc # "raised"
    /\ (ext_last.profile = "IBMM" /\ ~IsEmpty(ext_last.table)) =>
          /\ ext_last.table.columns = 7
          /\ ext_last.table.header = IBMM_HEADER

\* C11: in the run over a directory, a document whose extraction failed or
\* gave an empty table has no output file, and the run ends only when every
\* PDF of the directory has been processed.
C11_ExtractionRunContinues ==
    /\ (ext_last.file # <<>> /\ (ext_last.raised \/ IsEmpty(ext_last.table)))
          => ext_last.file \notin ext_out
    /\ ext_pc # "running" => ext_dir = {}

\* the profile the name of each document of the model selects
ExpectedProfile ==
    (<<"i", "b", "m", "m", "_", "m">> :> "IBMM")
    @@ (<<"I", "B", "M", "M", "_", "M">> :> "IBMM")
    @@ (<<"i", "b">> :> "DEFAULT")
    @@ (<<"P", "r", "o", "m", "m", "i", "n", "e", "r", "_", "1">> :> "Promminer")
    @@ (<<"u", "m">> :> "DEFAULT")

\* C12: route_extract takes one path per file, chosen from the lower-cased
\* prefix of its name: the IBMM profile for an IBMM token whatever the case
\* of the letters, else the Promminer profile for a Promminer token, else
\* the generic fallback.
C12_RoutedByLowercasedPrefix ==
    ext_last.file # <<>> =>
        /\ ext_last.file \in DOMAIN ExpectedProfile
        /\ ext_last.profile = ExpectedProfile[ext_last.file]

\* the file named in upper case went to the IBMM profile
C12_Witness ==
    /\ ext_last.file = <<"I", "B", "M", "M", "_", "M">>
    /\ ext_last.profile = "IBMM"
    /\ ~ext_last.raised

(***************************************************************************)
(* Properties of the row bands.                                            *)
(***************************************************************************)
\* the vertical gap between two boxes, negative when they overlap
VerticalGap(a, b) == MaxInt(a[1], b[1]) - MinInt(a[2], b[2])

\* the index of the cluster a box is in
ClusterOf(clusters, b) == CHOOSE i \in DOMAIN clusters : b \in Range(clusters[i])

BandsSorted ==
    \A i, j \in DOMAIN bands : i < j => bands[i][1] < bands[j][1] /\ bands[i][2] <= bands[j][1]

\* C13: the row bands are sorted ascending and do not overlap, and two
\* contours that passed the height filter and are less than the merge
\* threshold of the profile apart are in the same band.
C13_BandsSortedAndMerged ==
    cv_pc = "rows" =>
        /\ BandsSorted
        /\ LET boxes == BoxesOf(contours)
               clusters == ClusterBoxes(SortBoxes(boxes), MergeGap(cv_profile))
           IN \A a, b \in Range(boxes) :
                 VerticalGap(a, b) < MergeGap(cv_profile)
                    => ClusterOf(clusters, a) = ClusterOf(clusters, b)

\* C14: the merge step applied to the bands it produced gives the same bands.
C14_ReclusteringIsIdempotent ==
    cv_pc = "reclustered" => rebands = bands

(***************************************************************************)
(* Properties of the cell normalizers.                                     *)
(***************************************************************************)
\* the cell is a number, blanks and a bare h/s
IsBareHashrate(t) ==
    \E n \in CellNumbers, b \in 0..MaxBlanks : t = NatToStr(n) \o Blanks(b) \o BareUnit

NumberOf(t) == DigitsToNat(SubSeq(t, 1, DigitsEnd(t, 1)))

\* C15: a cell made of an integer and a bare h/s comes out of the
\* normalizer of either vendor as the integer, one blank, and Gh/s when the
\* integer is below 1000, Mh/s when it is 1000 or more.
C15_BareUnitFixed ==
    (cv_pc = "cleaned" /\ IsBareHashrate(cell_txt)) =>
        cell_out = NatToStr(NumberOf(cell_txt)) \o <<" ">>
                   \o <<IF NumberOf(cell_txt) < 1000 THEN "G" ELSE "M">> \o BareUnit

(***************************************************************************)
(* Properties of the garbage-row filter.                                   *)
(***************************************************************************)
PriceCellsOf(row) == {row.price_ue, row.price_rub, row.price_usd}

\* no digit in any price column and none in the hashrate
NoDigitAnywhere(row) ==
    /\ \A c \in PriceCellsOf(row) : ~HasDigit(c)
    /\ ~HasDigit(row.hashrate)

\* a digit in at least one price column and one in the hashrate
DigitInPriceAndHashrate(row) ==
    /\ \E c \in PriceCellsOf(row) : HasDigit(c)
    /\ HasDigit(row.hashrate)

\* the rows of d at the positions S, in the order of d
RowsAt(d, S) ==
    [k \in 1..Cardinality(S) |->
        d[CHOOSE i \in S : Cardinality({j \in S : j <= i}) = k]]

\* C16: the filter drops every row with no digit in any price column and
\* none in the hashrate, keeps every row with a digit in some price column
\* and in the hashrate, and the kept rows stay in their original order.
C16_GarbageRowsDropped ==
    cv_pc = "filtered" =>
        \E S \in SUBSET DOMAIN df :
            /\ df_kept = RowsAt(df, S)
            /\ \A i \in DOMAIN df :
                /\ NoDigitAnywhere(df[i]) => i \notin S
                /\ DigitInPriceAndHashrate(df[i]) => i \in S

C16_Witness ==
    /\ cv_pc = "filtered"
    /\ Len(df) = 3
    /\ DigitInPriceAndHashrate(df[1])
    /\ NoDigitAnywhere(df[2])
    /\ DigitInPriceAndHashrate(df[3])
    /\ ~HasDigit(df[3].price_ue)
    /\ df[1] # df[3]
    /\ df_kept = <<df[1], df[3]>>

(***************************************************************************)
(* Properties of the collection.                                           *)
(***************************************************************************)
\* the chat whose turn of the loop has just ended
ChatInHand == chat_ids[col_i]

\* the scanned messages that are PDFs and match for the chat in hand
Matching == {k \in DOMAIN scanned : IsPdf(scanned[k]) /\ IsMatch(ChatInHand, scanned[k])}

\* the entries of the log that record a file downloaded from chat c
DownloadsOf(c) ==
    {k \in DOMAIN collection_log :
        "files" \in DOMAIN collection_log[k] /\ collection_log[k].chat_id = c}

\* C17: for each chat at most one attachment is downloaded, and when a PDF
\* among the scanned messages matches (a keyword is in the lower-cased file
\* name, or the chat is exempt) the downloaded one is a matching PDF with
\* the greatest date of the matching ones.
C17_LatestMatchingDownloaded ==
    /\ \A c \in Range(chat_ids) : Cardinality(DownloadsOf(c)) <= 1
    /\ (col_pc = "collecting" /\ col_i > 0) =>
        /\ Len(downloaded) <= 1
        /\ \A d \in Range(downloaded) :
            /\ \E k \in Matching : scanned[k] = d
            /\ \A k \in Matching : scanned[k].date <= d.date
            /\ all_files[Len(all_files)] = FilePath(ChatInHand)
        /\ (downloaded = <<>> /\ Matching # {}) =>
            (ScanRaises(scanned) \/ Len(collection_log) < col_i
             \/ "error" \in DOMAIN collection_log[Len(collection_log)])

C17_Witness ==
    /\ col_pc = "collecting"
    /\ col_i = 2
    /\ ChatInHand \notin ExemptChats
    /\ Cardinality(Matching) = 2
    /\ Len(scanned) = 3
    /\ scanned[1].date > scanned[2].date
    /\ 2 \in Matching /\ 3 \in Matching
    /\ scanned[3].date > scanned[2].date
    /\ downloaded = <<scanned[3]>>
    /\ Len(all_files) = 2

\* how an entry of the log marks its chat
EntryMark(e) ==
    IF "error" \in DOMAIN e THEN "error"
    ELSE IF e.files_count > 0 THEN "success" ELSE "none-found"

\* C18: the log collect_pdf_files returns holds exactly one entry for each
\* chat id it was given, marked success, none-found or error.
C18_OneLogEntryPerChat ==
    col_pc = "report" =>
        /\ \A c \in Range(chat_ids) :
            Cardinality({k \in DOMAIN collection_log : collection_log[k].chat_id = c}) = 1
        /\ \A k \in DOMAIN collection_log :
            /\ collection_log[k].chat_id \in Range(chat_ids)
            /\ EntryMark(collection_log[k]) \in {"success", "none-found", "error"}

StageNames == [k \in DOMAIN stages |-> stages[k].stage]
StageStarted(stage) == \E k \in DOMAIN stages : stages[k].stage = stage
PathEnded == col_pc \in {"done", "raised"}

\* C19: on both paths, once files were collected, the stages start in the
\* order extraction, scrape, publishing; the scrape is attempted although
\* the extraction raised, and the publishing although the scrape raised.
C19_StagesInOrderDespiteErrors ==
    /\ \E n \in 0..3 : StageNames = SubSeq(<<"extraction", "scrape", "publishing">>, 1, n)
    /\ (PathEnded /\ TotalPdfs > 0) =>
        /\ StageStarted("extraction") => StageStarted("scrape")
        /\ StageStarted("scrape") => StageStarted("publishing")

\* C20: on both paths, when no file was collected, neither the extraction
\* nor the scrape is started.
C20_NoFilesNoStages ==
    (col_pc \notin {"collecting", "scanning", "flood_sleep"} /\ TotalPdfs = 0) =>
        ~StageStarted("extraction") /\ ~StageStarted("scrape")

\* the upload was attempted and the path has ended
PublishingEnded == PathEnded /\ StageStarted("publishing")
LastStage == stages[Len(stages)]

WrapperReturned == wrapper \in {"True", "False"}

\* C22: safe_data_collection_wrapper never lets an exception out: it
\* returns what the job returned when the job ends before the timeout,
\* False when the timeout fires or the job raises; the timeout leaves the
\* files the job has written where they are.
C22_WrapperNeverRaises ==
    /\ [](wrapper \in {"called", "waiting", "True", "False"})
    /\ [](WrapperReturned =>
            /\ col_pc = "done" => wrapper = "True"
            /\ col_pc \in {"failed", "raised", "cancelled", "idle"} => wrapper = "False"
            /\ col_pc \in {"done", "failed", "raised", "cancelled", "idle"})
    /\ [][col_pc' = "cancelled" => all_files' = all_files]_vars

C22_Witness ==
    /\ wrapper = "False"
    /\ col_pc = "cancelled"
    /\ Len(all_files) = 1
    /\ col_i = 1
    /\ Len(chat_ids) = 2

(***************************************************************************)
(* Properties of the run modes.                                            *)
(***************************************************************************)
\* the process has read its mode and runs, or has run, in mode m
InMode(m) == mode = m /\ main_pc # "start"

\* C23: in collect-only mode the forwarding handler is never registered
\* and the configuration file is neither loaded nor rewritten; in
\* forward-only mode the collect command handler is never registered.
C23_ModeDecidesHandlers ==
    /\ [](InMode("collect-only") =>
            /\ ~registered
            /\ main_pc \notin {"load", "configure", "validate", "register"}
            /\ saved = NoConfig /\ ~validation.ran)
    /\ [][InMode("collect-only") => config_file' = config_file]_vars
    /\ [](InMode("forward-only") => ~collector_registered)

C23_Witness ==
    /\ InMode("collect-only")
    /\ main_pc = "idle"
    /\ collector_registered
    /\ startups = 2
    /\ config_file # NoFile

\* in the full mode both handlers can be registered
C23_FullModeBoth == InMode("full") /\ registered /\ collector_registered

(***************************************************************************)
(* Properties of the web scrape.                                           *)
(***************************************************************************)
\* the records all_products holds for card i
RecordsOf(i) == {k \in DOMAIN all_products : all_products[k].card = i}

\* the cards were read from the page
PageRead == Len(all_product_cards) = Len(scr_cards)

\* nothing failed for card i
Sound(i) == scr_cards[i].card_fault = "none" /\ scr_cards[i].detail_fault = "none"

\* the record of card i holds an unknown field
Partial(r) == r.model = "Unknown Unknown" \/ r.hashrate = "Unknown" \/ r.price = "Price not available"

\* C24: an error on one card or on its detail page never aborts the
\* scrape: the card is omitted or kept with unknown fields, every other
\* card is processed and the records of the other cards are saved.
C24_CardErrorsDoNotAbort ==
    /\ scr_pc \in {"pages", "details", "done"}
    /\ (scr_pc = "details" /\ scr_done # DOMAIN all_product_cards) => ENABLED DetailStep
    /\ (scr_pc = "done" /\ PageRead) =>
        /\ scr_done = DOMAIN scr_cards
        /\ \A i \in DOMAIN scr_cards :
            /\ Cardinality(RecordsOf(i)) <= 1
            /\ Sound(i) => \E k \in RecordsOf(i) : ~Partial(all_products[k])
            /\ ~Sound(i) => \A k \in RecordsOf(i) : Partial(all_products[k])
        /\ \A f \in Range(scr_saved) : f.rows = all_products

C24_Witness ==
    /\ scr_pc = "done"
    /\ Len(scr_cards) = 2
    /\ scr_cards[1].detail_fault = "create_driver"
    /\ Sound(2)
    /\ Len(all_products) = 1
    /\ scr_saved # <<>>

\* the future of card i returned a record
Fetched(i) ==
    /\ i \in DOMAIN scr_futures
    /\ scr_futures[i].pc = "returned"
    /\ scr_futures[i].result # NoRecord

\* process_product failed for card i or the card has no url
Failed(i) ==
    \/ all_product_cards[i].url = "None"
    \/ scr_cards[i].detail_fault \in {"create_driver", "get", "quit"}

\* C37: under any interleaving of the detail-fetch workers the final list
\* of products holds exactly one record, the one returned, for every card
\* whose fetch returned a record and none for a card that failed or has no
\* url, and no browser session is driven by two threads.
C37_OneRecordPerFetchedCard ==
    /\ \A d \in DOMAIN scr_sessions : Cardinality(scr_sessions[d].users) <= 1
    /\ \A i \in DOMAIN all_product_cards : Cardinality(RecordsOf(i)) <= 1
    /\ scr_pc = "done" =>
        /\ \A i \in DOMAIN all_product_cards :
            /\ Fetched(i) => \E k \in RecordsOf(i) : all_products[k] = scr_futures[i].result
            /\ ~Fetched(i) => RecordsOf(i) = {}
            /\ Failed(i) => RecordsOf(i) = {}
        /\ Len(all_products) = Cardinality({i \in DOMAIN all_product_cards : Fetched(i)})

\* two workers ran at once and their records came in the other order
C37_Witness ==
    /\ scr_pc = "done"
    /\ Len(all_products) = 2
    /\ all_products[1].card = 2
    /\ all_products[2].card = 1
    /\ Len(scr_sessions) = 3

\* the sessions thread t created
SessionsBy(t) == {d \in DOMAIN scr_sessions : scr_sessions[d].by = t}

\* C38: every browser session a detail-fetch worker created is quit before
\* the worker finishes, on every exit path (record, card without url,
\* exception), and the session of the scraper is quit when run ends,
\* whether it succeeded or failed.
C38_SessionsTornDown ==
    /\ \A i \in DOMAIN scr_futures :
        scr_futures[i].pc # "running" => \A d \in SessionsBy(i) : scr_sessions[d].quit
    /\ scr_pc = "done" => \A d \in DOMAIN scr_sessions : scr_sessions[d].quit

\* a worker left by the path of a card without url and another by an
\* exception, and run has ended
C38_Witness ==
    /\ scr_pc = "done"
    /\ Len(all_product_cards) = 2
    /\ ExitPath(all_product_cards[1], scr_cards[1].detail_fault) = "no url"
    /\ ExitPath(all_product_cards[2], scr_cards[2].detail_fault) = "exception"
    /\ Len(scr_sessions) = 3
    /\ \A d \in DOMAIN scr_sessions : scr_sessions[d].quit

(***************************************************************************)
(* Properties of the collect command.                                      *)
(***************************************************************************)
\* the sender is a peer of the admins folder, and the folder was found
SenderIsAdmin == command.sender = "admin" /\ command.admins_folder = "present"

\* C25: collect_handler scans no chat, downloads nothing and starts no
\* stage unless the sender is a peer of the admins folder; an unknown
\* sender, a missing admins folder and a failing lookup are all denied.
C25_OnlyAdminsCollect ==
    ~SenderIsAdmin =>
        /\ col_pc \in {"permission", "denied"}
        /\ chat_ids = <<>> /\ col_i = 0 /\ scanned = <<>> /\ downloaded = <<>>
        /\ all_files = <<>> /\ collection_log = <<>> /\ stages = <<>>

C25_Witness ==
    /\ col_pc = "denied"
    /\ command.sender = "admin"
    /\ command.admins_folder = "Exception"


(***************************************************************************)
(* The media-group buffer and its flush tasks.                             *)
(***************************************************************************)
\* the event loop runs every task that is ready: a handler whose update
\* arrived, a sleep that elapsed, a call that returned
\* the engine with an album waiting in the inbox
AlbumInit == ForwardInit /\ \E m \in inbox : m.mg # None

SpecForwardFair == AlbumInit /\ [][ForwardNext]_vars /\ WF_vars(ForwardNext)

\* the album messages the handler can receive
AlbumMsgs == {m \in AlbumInbox : m.mg # None}

\* message m sits in the media-group buffer
InBuffer(m) ==
    /\ m.mg \in DOMAIN media_groups_buffer
    /\ m \in Range(media_groups_buffer[m.mg].messages)

\* the flush tasks that popped message m
FlushesWith(m) ==
    {i \in DOMAIN units : units[i].popped /\ m \in Range(units[i].buffered)}

\* flush task i issued forward calls, and each of them names message m
ForwardedBy(i, m) ==
    /\ \E k \in DOMAIN units[i].log : units[i].log[k].op \in ForwardOps
    /\ \A k \in DOMAIN units[i].log :
         units[i].log[k].op \in ForwardOps => m.id \in Range(units[i].log[k].ids)

\* a flush task popped m and forwards it
Flushed(m) == \E i \in FlushesWith(m) : ForwardedBy(i, m)

PendingFlushes == {i \in DOMAIN units : units[i].pc = "sleep_delay"}

\* C26: no buffered album message is lost: a message leaves the buffer only
\* in the step of a flush task that popped it and whose forward calls name
\* it, the buffer gets empty again and again (so every buffered message does
\* leave it later), and the buffer is empty whenever no scheduled flush task
\* is left to run.
C26_NoBufferedMessageLost ==
    /\ [][\A m \in AlbumMsgs : (InBuffer(m) /\ ~InBuffer(m)') => Flushed(m)']_vars
    /\ []<>(media_groups_buffer = <<>>)
    /\ [](PendingFlushes = {} => media_groups_buffer = <<>>)

\* an album of three messages flushed by one task, all forwarded
C26_Witness ==
    \E i \in DOMAIN units :
        /\ units[i].popped
        /\ Len(units[i].buffered) = 3
        /\ \A m \in Range(units[i].buffered) : ForwardedBy(i, m)
        /\ media_groups_buffer = <<>>


\* the flush tasks scheduled for group g that have not popped its entry yet
PendingFlushesOf(g) ==
    {i \in PendingFlushes : units[i].kind = "group" /\ units[i].mg = g}

\* C27: between the handlers, every entry of the media-group buffer has
\* exactly one flush task scheduled that has not consumed it yet, the one the
\* entry names: never none and never two.
C27_OnePendingFlushPerEntry ==
    \A g \in DOMAIN media_groups_buffer :
        /\ media_groups_buffer[g].task # None
        /\ PendingFlushesOf(g) = {media_groups_buffer[g].task}

\* a second message of the group arrived while the entry had its task
C27_Witness ==
    \E g \in DOMAIN media_groups_buffer :
        /\ Len(media_groups_buffer[g].messages) >= 2
        /\ Cardinality(PendingFlushesOf(g)) = 1


\* in the calls of unit u for destination d, a forward that raised the
\* invalid-message signal is the last call: no forward and no fallback_copy
\* follows it
InvalidEndsDestination(u, d) ==
    LET calls == EventsFor(u, d) IN
    \A k \in DOMAIN calls :
        (calls[k].op \in ForwardOps /\ calls[k].res = "MessageIdInvalid") =>
            \A j \in (k + 1)..Len(calls) :
                calls[j].op \notin ForwardOps \cup {"fallback_copy"} \cup CopyOps

\* C28: a forward attempt that raises MessageIdInvalid ends the delivery to
\* that destination: the forward is not repeated and no fallback copy is made
\* to it.
C28_InvalidMessageSkipsDestination ==
    \A i \in DOMAIN units : \A d \in DestsOf(units[i]) :
        InvalidEndsDestination(units[i], d)


\* the index in the log of unit u of the first forward to each destination
FirstAttempts(u) ==
    {k \in DOMAIN u.log :
        /\ u.log[k].op \in ForwardOps
        /\ \A j \in 1..(k - 1) : ~(u.log[j].op \in ForwardOps /\ u.log[j].dest = u.log[k].dest)}

\* the first attempt at index k is for a later destination of the loop
LaterDestination(u, k) == \E j \in 1..(k - 1) : u.log[j].dest # u.log[k].dest

\* the call right before index k is the jitter sleep for the same destination
JitterBefore(u, k) ==
    /\ k > 1
    /\ u.log[k - 1].op = "sleep_jitter"
    /\ u.log[k - 1].dest = u.log[k].dest

\* C29: in every delivery the attempt for the first destination is made
\* without a jitter sleep, and the attempt for every later destination comes
\* right after a sleep of JitterMin..JitterMax seconds, whatever happened at
\* the earlier destinations.
C29_JitterBeforeLaterDestinations ==
    \A i \in DOMAIN units :
        /\ units[i].pc = "sleep_jitter" => units[i].sleep \in JitterMin..JitterMax
        /\ \A k \in FirstAttempts(units[i]) :
             JitterBefore(units[i], k) <=> LaterDestination(units[i], k)


(***************************************************************************)
(* Coverage of the row bands.                                              *)
(***************************************************************************)
\* the clusters of the contour boxes that got a band, in the order of bands
BandedClusters ==
    LET clusters == ClusterBoxes(SortBoxes(BoxesOf(contours)), MergeGap(cv_profile))
    IN IF cv_profile = "Promminer" THEN clusters ELSE SelectSeq(clusters, TallEnough)

\* band covers box b, up to the clipping at the image edge
Covers(band, b) ==
    /\ band[1] <= b[1]
    /\ band[2] >= MinInt(ImgHeight, b[2])

\* C30: every row band covers all contour boxes clustered into it: its top
\* is at or above the top of each box and its bottom at or below the bottom
\* of each box (up to the image edge), also when a tall box vertically
\* contains a shorter one.
C30_BandCoversItsBoxes ==
    cv_pc = "rows" =>
        /\ Len(bands) = Len(BandedClusters)
        /\ \A i \in DOMAIN bands :
              \A b \in Range(BandedClusters[i]) : Covers(bands[i], b)


(***************************************************************************)
(* The fallback to uniform rows.                                           *)
(***************************************************************************)
\* rows are consecutive bands of one height that start at the top of the
\* table region and end less than one band short of its bottom
UniformRows(rows, height) ==
    /\ Len(rows) = GridRows
    /\ rows[1][1] = 0
    /\ \A i \in 1..(Len(rows) - 1) :
          /\ rows[i][2] = rows[i + 1][1]
          /\ rows[i][2] - rows[i][1] = rows[i + 1][2] - rows[i + 1][1]
    /\ rows[Len(rows)][2] <= height
    /\ height - rows[Len(rows)][2] < GridRows

\* C31: when the clustering yields fewer row bands than the minimum row
\* count, an empty contour list included, the rows cut out of the table
\* region are consecutive equal-height bands sliced uniformly across it.
C31_UniformRowsWhenFewBands ==
    (cv_pc = "rows" /\ Len(bands) < MinRows) => UniformRows(rows_px, ImgHeight)


(***************************************************************************)
(* Properties of the OCR loop.                                             *)
(***************************************************************************)
\* the cells of the grid whose OCR gives a text
TextCells ==
    {rc \in (DOMAIN ocr_grid) \X (1..OcrColumns) : ocr_grid[rc[1]][rc[2]] = "text"}

\* the returned frame has the text of cell rc in the column of the cell
Kept(rc) ==
    \E k \in DOMAIN ocr_df :
        /\ rc[2] \in DOMAIN ocr_df[k]
        /\ ocr_df[k][rc[2]] = Recognized(rc[1], rc[2])

\* C32: when the OCR of a cell raises, only that cell is affected: the
\* texts of the other cells of its row and of the other rows are in the
\* extracted table.
C32_CellErrorCostsOneCell ==
    cv_pc = "returned" => \A rc \in TextCells : Kept(rc)


(***************************************************************************)
(* Properties of the generic extraction.                                   *)
(***************************************************************************)
\* the non-empty tables the two passes find for the last file
FoundByEitherPass == NonEmptyFrames(ext_last.stream) \o NonEmptyFrames(ext_last.lattice)

\* C33: for a file that matches no vendor token, route_extract returns the
\* concatenation of the non-empty tables found by the stream pass and by the
\* lattice pass, and an empty table only when both passes find nothing.
C33_GenericConcatenatesBothPasses ==
    (ext_last.profile = "DEFAULT" /\ ~ext_last.raised) =>
        ext_last.table =
            IF FoundByEitherPass = <<>> THEN EmptyTable
            ELSE Table(<<>>, Cardinality(ConcatColumns(FoundByEitherPass)),
                       Len(ConcatRows(FoundByEitherPass)))


\* the non-empty tables of the first pass that finds any
FoundByFirstPass ==
    LET stream == NonEmptyFrames(ext_last.stream)
    IN IF stream # <<>> THEN stream ELSE NonEmptyFrames(ext_last.lattice)

\* C33, amended: for a file that matches no vendor token, route_extract
\* returns the concatenation of the non-empty tables of the stream pass when
\* it finds any, otherwise of the lattice pass, and an empty table only when
\* both passes find nothing.
C33_GenericConcatenatesFirstPass ==
    (ext_last.profile = "DEFAULT" /\ ~ext_last.raised) =>
        /\ IsEmpty(ext_last.table) <=> FoundByEitherPass = <<>>
        /\ FoundByFirstPass # <<>> =>
              /\ ext_last.table.columns = Cardinality(ConcatColumns(FoundByFirstPass))
              /\ ext_last.table.rows = Len(ConcatRows(FoundByFirstPass))

\* both passes find tables in the file and the table is that of the stream
\* pass alone
C33_Witness ==
    /\ ext_last.profile = "DEFAULT"
    /\ ~ext_last.raised
    /\ NonEmptyFrames(ext_last.stream) # <<>>
    /\ NonEmptyFrames(ext_last.lattice) # <<>>
    /\ ext_last.table.rows = Len(ConcatRows(NonEmptyFrames(ext_last.stream)))
    /\ ext_last.table.rows < Len(ConcatRows(FoundByEitherPass))


(***************************************************************************)
(* Properties of the return of main().                                     *)
(***************************************************************************)
\* C40: on every path on which main() returns after app.start(), app.stop()
\* has run before the return: the admins or the collect folder is missing,
\* the forwarding could not be set up, the bot went on as a collector only
\* or not, or idle() ended.
C40_ClientStoppedBeforeReturn == main_pc = "returned" => ~started


(***************************************************************************)
(* Properties of the loop over the chats.                                  *)
(***************************************************************************)
\* s is the beginning of t
IsPrefix(s, t) == Len(s) <= Len(t) /\ SubSeq(t, 1, Len(s)) = s

\* collect_pdf_files is in its loop
InChatLoop == col_pc \in {"collecting", "scanning", "flood_sleep"}

\* the entry of the log records a downloaded file
HasFiles(e) == "files" \in DOMAIN e

\* the chats whose files are in all_files, in the order of all_files
ChatsOfFiles ==
    LET logged == SelectSeq(collection_log, HasFiles)
    IN [k \in DOMAIN logged |-> logged[k].chat_id]

\* the positions in chat_ids of the chats of s are ascending
InChatOrder(s) ==
    \A j, k \in DOMAIN s : j < k =>
        \E a, b \in DOMAIN chat_ids : a < b /\ chat_ids[a] = s[j] /\ chat_ids[b] = s[k]

\* C34: collect_pdf_files leaves its loop only after the last chat id, the
\* chats are taken one by one in the order given, and whatever a chat raises
\* the results of the chats before it stay in the log and in the files.
C34_EveryChatProcessed ==
    /\ [](InChatLoop \/ col_i = Len(chat_ids))
    /\ [](InChatOrder(ChatsOfFiles))
    /\ [][/\ col_i' \in {col_i, col_i + 1}
          /\ IsPrefix(collection_log, collection_log')
          /\ IsPrefix(all_files, all_files')]_vars

\* the first chat failed with an exception and the second gave its file
C34_Witness ==
    /\ ~InChatLoop
    /\ Len(chat_ids) = 2
    /\ Len(collection_log) = 2
    /\ collection_log[1] = ErrorEntry(chat_ids[1])
    /\ all_files = <<FilePath(chat_ids[2])>>


\* C39: within one collection run the files downloaded from distinct chats
\* are saved under distinct paths: all_files holds no path twice, and
\* total_pdfs, the length of all_files, is the number of distinct files
\* written to the collection directory.
C39_DistinctChatsDistinctPaths ==
    /\ \A j, k \in DOMAIN all_files : j # k => all_files[j] # all_files[k]
    /\ Len(all_files) = Cardinality(Range(all_files))


\* C35: when the turn of a chat raised the rate-limit signal, the collector
\* sleeps and then takes the same chat again: after the sleep the chat that
\* raised is the next one to be handled.
C35_FloodWaitRetriesChat ==
    [][col_pc = "flood_sleep" => (col_pc' = "collecting" /\ col_i' = col_i)]_vars


(***************************************************************************)
(* Properties of the status message of the collect command.                *)
(***************************************************************************)
\* the texts that tell the user how the command ended
TerminalTexts == {"success", "warning", "failure"}

\* the handler has returned or has been left by an exception
HandlerEnded == col_path = "handler" /\ col_pc \in {"stopped", "done", "raised"}

\* C36: once the handler of a collect command of an authorized sender has
\* ended, its status message shows a terminal success or failure text,
\* whichever stage failed.
C36_StatusEndsTerminal ==
    (HandlerEnded /\ command # <<>> /\ CheckUserPermission(command)) =>
        status \in TerminalTexts

====
